---- MODULE Spec2Model ----
(***************************************************************************)
(* Red-black tree engine of nostd::set<T> and nostd::map<Key, T>           *)
(* (include/nostd/set.h, include/nostd/map.h), together with the counting  *)
(* allocator the unit tests put underneath it.                             *)
(*                                                                         *)
(* The heap is a function from block addresses to node records.  The code  *)
(* never orders or computes on addresses, it only compares them for        *)
(* equality, so the block that is allocated for a payload with key k is    *)
(* named k; the two sentinels get the addresses nil_ and root_.            *)
(* A block that is not allocated holds Junk: following one of its links or *)
(* testing its colour is an evaluation error, never a silent value.        *)
(***************************************************************************)
EXTENDS Integers, Sequences, FiniteSets, TLC

\* ------------------------------------------------------------------ bounds
MaxKey == 6
MapMaxKey == 3
MaxVal == 1

\* --------------------------------------------------------------- addresses
nil_ == 0
root_ == -1
NULLPTR == -2
NoIter == -3
\* the value of a pointer whose block has been released: the allocator may
\* hand the block out again, the pointer stays invalid
Dangling == -4

Addr == {nil_, root_} \cup (1..MaxKey)

\* depth no path of a tree over the modelled keys exceeds
Fuel == MaxKey + 1

VARIABLES
    kind,      \* "set" or "map": which of the two templates is instantiated
    mem,       \* heap: Addr -> node_t
    size_,     \* member size_
    blocks,    \* addresses handed out by the allocator and not yet freed
    count,     \* test_allocator::count_
    it,        \* node_ of the iterator the caller holds (NoIter: none)
    op,        \* the operation the last step performed
    arg,       \* its argument
    ret,       \* its return value
    err,       \* "none", "runtime_error" (exception) or "undefined"
    ref,       \* the payloads the caller has stored and not removed
    objs,      \* the set/map objects of the copy and move scenarios
    heaps,     \* the nodes of those objects, one arena per tree
    acount,    \* test_allocator::count_ of each allocator they use
    pool,      \* the pool_allocator object and the chunks of its slabs
    cont,      \* the list, stack or vector object and the blocks it holds
    palloc,    \* a set/map on a pool_allocator: the pool pointer behind each
               \* node, and the sizes the container has requested
    peer       \* the members of a second list, stack or vector that shares
               \* the allocator of cont: the other of a swap, copy or move

vars == <<kind, mem, size_, blocks, count, it, op, arg, ret, err, ref,
          objs, heaps, acount, pool, cont, palloc, peer>>

\* the single container driven through its member functions
tree == <<mem, size_, blocks, count, it, ref>>

\* everything the single container's member functions leave alone
aux == <<objs, heaps, acount>>

\* ---------------------------------------------------------------- payloads
\* set<T>: the payload is its own key.  map<Key,T>: pair_type(key, value).
Payloads(k) ==
    IF k = "set" THEN 1..MaxKey
    ELSE (1..MapMaxKey) \X (0..MaxVal)

KeysOfKind(k) == IF k = "set" THEN 1..MaxKey ELSE 1..MapMaxKey

KeyOf(d) == IF kind = "set" THEN d ELSE d[1]

DefaultData == IF kind = "set" THEN 0 ELSE <<0, 0>>

Junk == [parent |-> NULLPTR, left |-> NULLPTR, right |-> NULLPTR,
         red |-> "junk", data |-> "junk"]

\* node_t::node_t(node_t * node)
node_t(node) ==
    [parent |-> node, left |-> node, right |-> node, red |-> FALSE,
     data |-> DefaultData]

\* The container together with its allocator, as one value the helpers
\* transform: w.mem, w.size_, w.blocks, w.count.
World == [mem |-> mem, size_ |-> size_, blocks |-> blocks, count |-> count]

\* allocator contents after a block is released are indeterminate, and a
\* parent link left pointing at a released block (the nil sentinel's, which
\* _delete writes and does not reset) is an invalid pointer from then on
Scrub(m, b) ==
    [a \in DOMAIN m |->
        IF a \notin b THEN Junk
        ELSE IF m[a].parent \in b \cup {NULLPTR} THEN m[a]
        ELSE [m[a] EXCEPT !.parent = Dangling]]

\* ------------------------------------------------------------ node storage
_allocate_node(w, a) ==
    [w EXCEPT !.blocks = @ \cup {a}, !.count = @ + 1]

\* variant of _free_node that releases the block without the allocator
\* counting it
_free_node_uncounted(w, node) ==
    [w EXCEPT !.blocks = @ \ {node}]

_free_node(w, node) ==
    [w EXCEPT !.blocks = @ \ {node}, !.count = @ - 1]

\* --------------------------------------------------------------- rotations
\* Each statement of a function body is an operator from the heap before it
\* to the heap after it; the body is their composition, innermost first.
\* variant of _left_rotate that leaves the parent link of the subtree it
\* moves from y to x as it was
_left_rotate_stale_parent(m, x) ==
    LET y == m[x].right
        s1(h) == [h EXCEPT ![x].right = h[y].left]
        s3(h) == [h EXCEPT ![y].parent = h[x].parent]
        s4(h) == IF x = h[h[x].parent].left
                 THEN [h EXCEPT ![h[x].parent].left = y]
                 ELSE [h EXCEPT ![h[x].parent].right = y]
        s5(h) == [h EXCEPT ![y].left = x, ![x].parent = y]
    IN  s5(s4(s3(s1(m))))

_left_rotate(m, x) ==
    LET y == m[x].right
        \* x->right = y->left;
        s1(h) == [h EXCEPT ![x].right = h[y].left]
        \* if (y->left != nil_) y->left->parent = x;
        s2(h) == IF h[y].left # nil_
                 THEN [h EXCEPT ![h[y].left].parent = x] ELSE h
        \* y->parent = x->parent;
        s3(h) == [h EXCEPT ![y].parent = h[x].parent]
        \* if (x == x->parent->left) x->parent->left = y;
        \* else x->parent->right = y;
        s4(h) == IF x = h[h[x].parent].left
                 THEN [h EXCEPT ![h[x].parent].left = y]
                 ELSE [h EXCEPT ![h[x].parent].right = y]
        \* y->left = x; x->parent = y;
        s5(h) == [h EXCEPT ![y].left = x, ![x].parent = y]
    IN  s5(s4(s3(s2(s1(m)))))

_right_rotate(m, y) ==
    LET x == m[y].left
        \* y->left = x->right;
        s1(h) == [h EXCEPT ![y].left = h[x].right]
        \* if (nil_ != x->right) x->right->parent = y;
        s2(h) == IF nil_ # h[x].right
                 THEN [h EXCEPT ![h[x].right].parent = y] ELSE h
        \* x->parent = y->parent;
        s3(h) == [h EXCEPT ![x].parent = h[y].parent]
        \* if (y == y->parent->left) y->parent->left = x;
        \* else y->parent->right = x;
        s4(h) == IF y = h[h[y].parent].left
                 THEN [h EXCEPT ![h[y].parent].left = x]
                 ELSE [h EXCEPT ![h[y].parent].right = x]
        \* x->right = y; y->parent = x;
        s5(h) == [h EXCEPT ![x].right = y, ![y].parent = x]
    IN  s5(s4(s3(s2(s1(m)))))

\* ------------------------------------------------------------------ search
RECURSIVE _search_loop_flipped(_, _, _)
\* variant of the search loop that descends to the wrong side
_search_loop_flipped(m, key, x) ==
    IF key = KeyOf(m[x].data) THEN x
    ELSE LET x1 == IF key < KeyOf(m[x].data) THEN m[x].right ELSE m[x].left
         IN  IF x1 = nil_ THEN nil_ ELSE _search_loop_flipped(m, key, x1)

RECURSIVE _search_loop(_, _, _)
_search_loop(m, key, x) ==
    IF key = KeyOf(m[x].data) THEN x
    ELSE LET x1 == IF key < KeyOf(m[x].data) THEN m[x].left ELSE m[x].right
         IN  IF x1 = nil_ THEN nil_ ELSE _search_loop(m, key, x1)

_search(m, key) ==
    LET x == m[root_].left
    IN  IF x = nil_ THEN nil_ ELSE _search_loop(m, key, x)

\* ------------------------------------------------------------------ insert
RECURSIVE _insert_help_loop(_, _, _, _)
_insert_help_loop(m, z, y, x) ==
    IF x = nil_ THEN y
    ELSE IF KeyOf(m[z].data) < KeyOf(m[x].data)
         THEN _insert_help_loop(m, z, x, m[x].left)
         ELSE _insert_help_loop(m, z, x, m[x].right)

\* variant of _insert_help that links below a real node without comparing keys
_insert_help_right(m, z) ==
    LET m1 == [m EXCEPT ![z].left = nil_, ![z].right = nil_]
        y  == _insert_help_loop(m1, z, root_, m1[root_].left)
        m2 == [m1 EXCEPT ![z].parent = y]
    IN  IF y = root_
        THEN [m2 EXCEPT ![y].left = z]
        ELSE [m2 EXCEPT ![y].right = z]

_insert_help(m, z) ==
    LET m1 == [m EXCEPT ![z].left = nil_, ![z].right = nil_]
        y  == _insert_help_loop(m1, z, root_, m1[root_].left)
        m2 == [m1 EXCEPT ![z].parent = y]
    IN  IF (y = root_) \/ (KeyOf(m2[z].data) < KeyOf(m2[y].data))
        THEN [m2 EXCEPT ![y].left = z]
        ELSE [m2 EXCEPT ![y].right = z]

\* --------------------------------------------------------- the insert loop
\* variant of the pass that has no branch for a black uncle: the heap and x
\* stay as they are
_insert_pass_red_uncle_only(m, x) ==
    LET p == m[x].parent
        g == m[m[x].parent].parent
        up(y) == [mem |-> [m EXCEPT ![p].red = FALSE, ![y].red = FALSE,
                                    ![g].red = TRUE],
                  x |-> g]
    IN  IF p = m[g].left
        THEN IF m[m[g].right].red THEN up(m[g].right)
             ELSE [mem |-> m, x |-> x]
        ELSE IF m[m[g].left].red THEN up(m[g].left)
             ELSE [mem |-> m, x |-> x]

\* one pass of the while loop of _insert: the heap and the x it ends with
_insert_pass(m, x) ==
    LET p == m[x].parent
        g == m[m[x].parent].parent
        \* x->parent->red = false; x->parent->parent->red = true;
        recolour(h, n) ==
            [h EXCEPT ![h[n].parent].red = FALSE,
                      ![h[h[n].parent].parent].red = TRUE]
        \* y->red: x->parent->red = false; y->red = false;
        \* x->parent->parent->red = true; x = x->parent->parent;
        up(y) == [mem |-> [m EXCEPT ![p].red = FALSE, ![y].red = FALSE,
                                    ![g].red = TRUE],
                  x |-> g]
    IN  IF p = m[g].left
        THEN IF m[m[g].right].red
             THEN up(m[g].right)
             ELSE LET x1 == IF x = m[p].right THEN p ELSE x
                      \* if (x == x->parent->right) { x = x->parent;
                      \*                              _left_rotate(x); }
                      inner(h) == IF x = m[p].right
                                  THEN _left_rotate(h, x1) ELSE h
                      \* _right_rotate(x->parent->parent);
                      outer(h) == _right_rotate(h, h[h[x1].parent].parent)
                  IN  [mem |-> outer(recolour(inner(m), x1)), x |-> x1]
        ELSE IF m[m[g].left].red
             THEN up(m[g].left)
             ELSE LET x1 == IF x = m[p].left THEN p ELSE x
                      \* if (x == x->parent->left) { x = x->parent;
                      \*                             _right_rotate(x); }
                      inner(h) == IF x = m[p].left
                                  THEN _right_rotate(h, x1) ELSE h
                      \* _left_rotate(x->parent->parent);
                      outer(h) == _left_rotate(h, h[h[x1].parent].parent)
                  IN  [mem |-> outer(recolour(inner(m), x1)), x |-> x1]

\* the passes counted so far, one more
Bump(r) == [r EXCEPT !.passes = @ + 1]

RECURSIVE _insert_loop_counted(_, _, _)
\* while (x->parent->red) { pass }: the heap the loop leaves, the number of
\* passes, and whether the loop condition became false within fuel passes
\* (a loop still running after fuel passes is followed no further)
_insert_loop_counted(m, x, fuel) ==
    LET next(r) == _insert_loop_counted(r.mem, r.x, fuel - 1)
    IN  IF ~m[m[x].parent].red
        THEN [mem |-> m, passes |-> 0, exits |-> TRUE]
        ELSE IF fuel = 0 THEN [mem |-> m, passes |-> 0, exits |-> FALSE]
        ELSE Bump(next(_insert_pass(m, x)))

\* while (x->parent->red)
_insert_loop(m, x) == _insert_loop_counted(m, x, Fuel).mem

\* variant of _insert that links the node and skips the recolouring loop
_insert_unbalanced(w, x) ==
    LET \* x->red = true;
        redden(h) == [h EXCEPT ![x].red = TRUE]
        \* root_->left->red = false;
        blacken(h) == [h EXCEPT ![h[root_].left].red = FALSE]
    IN  [w EXCEPT !.mem = blacken(redden(_insert_help(w.mem, x))),
                  !.size_ = @ + 1]

\* variant of _insert that does not force the root to black
_insert_no_blacken(w, x) ==
    LET \* x->red = true;
        redden(h) == [h EXCEPT ![x].red = TRUE]
    IN  [w EXCEPT !.mem = _insert_loop(redden(_insert_help(w.mem, x)), x),
                  !.size_ = @ + 1]

_insert(w, x) ==
    LET \* x->red = true;
        redden(h) == [h EXCEPT ![x].red = TRUE]
        \* root_->left->red = false;
        blacken(h) == [h EXCEPT ![h[root_].left].red = FALSE]
    IN  [w EXCEPT
           !.mem = blacken(_insert_loop(redden(_insert_help(w.mem, x)), x)),
           !.size_ = @ + 1]

\* ----------------------------------------------------------------- destroy
\* variant of _destroy_helper that descends only into the left subtree
RECURSIVE _destroy_helper_left(_, _)
_destroy_helper_left(w, x) ==
    IF x # nil_
    THEN _free_node(_destroy_helper_left(w, w.mem[x].left), x)
    ELSE w

RECURSIVE _destroy_helper(_, _)
_destroy_helper(w, x) ==
    IF x # nil_
    THEN LET w1 == _destroy_helper(w, w.mem[x].left)
             w2 == _destroy_helper(w1, w1.mem[x].right)
         IN  _free_node(w2, x)
    ELSE w

\* _clean() of a constructed container, whose nil_ and root_ are not null:
\* _destroy_helper(root_->left); _free_node(root_); _free_node(nil_);
_clean(w) ==
    _free_node(_free_node(_destroy_helper(w, w.mem[root_].left), root_), nil_)

\* ------------------------------------------------------------------ delete
\* one pass of the while loop of _delete_fix_up: the heap and the x it ends
\* with; root is the local captured before the loop.  The local w is
\* x->parent->right (left in the mirrored half) wherever it is read: each
\* rotation is followed by that very reassignment.
_delete_fix_up_pass(m, root, x) ==
    IF x = m[m[x].parent].left
    THEN LET \* if (w->red) { w->red = false; x->parent->red = true;
             \*               _left_rotate(x->parent); w = x->parent->right; }
             case1(h) ==
                 LET w == h[h[x].parent].right
                 IN  IF h[w].red
                     THEN _left_rotate([h EXCEPT ![w].red = FALSE,
                                                 ![h[x].parent].red = TRUE],
                                       h[x].parent)
                     ELSE h
             \* if (!w->right->red) { w->left->red = false; w->red = true;
             \*                       _right_rotate(w); w = x->parent->right; }
             case3(h) ==
                 LET w == h[h[x].parent].right
                 IN  IF ~h[h[w].right].red
                     THEN _right_rotate([h EXCEPT ![h[w].left].red = FALSE,
                                                  ![w].red = TRUE], w)
                     ELSE h
             \* w->red = x->parent->red; x->parent->red = false;
             \* w->right->red = false; _left_rotate(x->parent);
             case4(h) ==
                 LET w == h[h[x].parent].right
                 IN  _left_rotate([h EXCEPT ![w].red = h[h[x].parent].red,
                                            ![h[x].parent].red = FALSE,
                                            ![h[w].right].red = FALSE],
                                  h[x].parent)
             rest(h) ==
                 LET w == h[h[x].parent].right
                 IN  IF (~h[h[w].right].red) /\ (~h[h[w].left].red)
                     THEN \* w->red = true; x = x->parent;
                          [mem |-> [h EXCEPT ![w].red = TRUE],
                           x |-> h[x].parent]
                     ELSE \* x = root;
                          [mem |-> case4(case3(h)), x |-> root]
         IN  rest(case1(m))
    ELSE LET case1(h) ==
                 LET w == h[h[x].parent].left
                 IN  IF h[w].red
                     THEN _right_rotate([h EXCEPT ![w].red = FALSE,
                                                  ![h[x].parent].red = TRUE],
                                        h[x].parent)
                     ELSE h
             case3(h) ==
                 LET w == h[h[x].parent].left
                 IN  IF ~h[h[w].left].red
                     THEN _left_rotate([h EXCEPT ![h[w].right].red = FALSE,
                                                 ![w].red = TRUE], w)
                     ELSE h
             case4(h) ==
                 LET w == h[h[x].parent].left
                 IN  _right_rotate([h EXCEPT ![w].red = h[h[x].parent].red,
                                             ![h[x].parent].red = FALSE,
                                             ![h[w].left].red = FALSE],
                                   h[x].parent)
             rest(h) ==
                 LET w == h[h[x].parent].left
                 IN  IF (~h[h[w].right].red) /\ (~h[h[w].left].red)
                     THEN [mem |-> [h EXCEPT ![w].red = TRUE],
                           x |-> h[x].parent]
                     ELSE [mem |-> case4(case3(h)), x |-> root]
         IN  rest(case1(m))

RECURSIVE _delete_fix_up_counted(_, _, _, _)
\* while ((!x->red) && (root != x)) { pass }
_delete_fix_up_counted(m, root, x, fuel) ==
    LET next(r) == _delete_fix_up_counted(r.mem, root, r.x, fuel - 1)
    IN  IF ~((~m[x].red) /\ (root # x))
        THEN [mem |-> m, x |-> x, passes |-> 0, exits |-> TRUE]
        ELSE IF fuel = 0
        THEN [mem |-> m, x |-> x, passes |-> 0, exits |-> FALSE]
        ELSE Bump(next(_delete_fix_up_pass(m, root, x)))

\* while ((!x->red) && (root != x)): the heap and the x the loop ends with
_delete_fix_up_loop(m, root, x) == _delete_fix_up_counted(m, root, x, Fuel)

\* variant of _delete_fix_up without the final x->red = false
_delete_fix_up_no_blacken(m, x) ==
    _delete_fix_up_loop(m, m[root_].left, x).mem

\* variant of _delete_fix_up whose local root is the root sentinel instead
\* of root_->left
_delete_fix_up_root_sentinel(m, x) ==
    LET blacken(r) == [r.mem EXCEPT ![r.x].red = FALSE]
    IN  blacken(_delete_fix_up_loop(m, root_, x))

_delete_fix_up(m, x) ==
    LET \* x->red = false;
        blacken(r) == [r.mem EXCEPT ![r.x].red = FALSE]
    IN  blacken(_delete_fix_up_loop(m, m[root_].left, x))

RECURSIVE _tree_minimum(_, _)
\* while (y->left != nil_) y = y->left;
_tree_minimum(m, y) ==
    IF m[y].left # nil_ THEN _tree_minimum(m, m[y].left) ELSE y

RECURSIVE _tree_successor_climb(_, _, _)
_tree_successor_climb(m, x, y) ==
    IF x = m[y].right THEN _tree_successor_climb(m, y, m[y].parent) ELSE y

\* variant of _tree_successor that stops at the right child
_tree_successor_right(m, x) ==
    IF nil_ # m[x].right
    THEN m[x].right
    ELSE LET y == _tree_successor_climb(m, x, m[x].parent)
         IN  IF y = root_ THEN nil_ ELSE y

_tree_successor(m, x) ==
    IF nil_ # m[x].right
    THEN _tree_minimum(m, m[x].right)
    ELSE LET y == _tree_successor_climb(m, x, m[x].parent)
         IN  IF y = root_ THEN nil_ ELSE y

\* variant of _delete that copies the successor's payload into z and
\* releases the successor's node
_delete_copy_payload(w, z) ==
    LET y == IF (w.mem[z].left = nil_) \/ (w.mem[z].right = nil_)
             THEN z ELSE _tree_successor(w.mem, z)
        x == IF w.mem[y].left = nil_ THEN w.mem[y].right ELSE w.mem[y].left
        link(h) == [h EXCEPT ![x].parent = h[y].parent]
        splice(h) ==
            IF root_ = h[x].parent
            THEN [h EXCEPT ![root_].left = x]
            ELSE IF y = h[h[y].parent].left
                 THEN [h EXCEPT ![h[y].parent].left = x]
                 ELSE [h EXCEPT ![h[y].parent].right = x]
        copy(h) == IF y # z THEN [h EXCEPT ![z].data = h[y].data] ELSE h
        fix(h) == IF ~h[y].red THEN _delete_fix_up(h, x) ELSE h
    IN  [_free_node([w EXCEPT !.mem = fix(copy(splice(link(w.mem))))], y)
            EXCEPT !.size_ = @ - 1]

_delete(w, z) ==
    LET \* y = ((z->left == nil_) || (z->right == nil_)) ? z
        \*                                                : _tree_successor(z);
        y == IF (w.mem[z].left = nil_) \/ (w.mem[z].right = nil_)
             THEN z ELSE _tree_successor(w.mem, z)
        \* x->parent = y->parent  (the assignment inside the first test)
        link(h, yy, x) == [h EXCEPT ![x].parent = h[yy].parent]
        \* if (root_ == x->parent) root_->left = x;
        \* else if (y == y->parent->left) y->parent->left = x;
        \* else y->parent->right = x;
        splice(h, yy, x) ==
            IF root_ = h[x].parent
            THEN [h EXCEPT ![root_].left = x]
            ELSE IF yy = h[h[yy].parent].left
                 THEN [h EXCEPT ![h[yy].parent].left = x]
                 ELSE [h EXCEPT ![h[yy].parent].right = x]
        \* if (!(y->red)) _delete_fix_up(x);
        fix(h, yy, x) == IF ~h[yy].red THEN _delete_fix_up(h, x) ELSE h
        \* y->left = z->left; y->right = z->right; y->parent = z->parent;
        \* y->red = z->red;
        s1(h, yy) == [h EXCEPT ![yy].left = h[z].left,
                               ![yy].right = h[z].right,
                               ![yy].parent = h[z].parent,
                               ![yy].red = h[z].red]
        \* z->left->parent = z->right->parent = y;
        s2(h, yy) == [h EXCEPT ![h[z].right].parent = yy,
                               ![h[z].left].parent = yy]
        \* if (z == z->parent->left) z->parent->left = y;
        \* else z->parent->right = y;
        s3(h, yy) == IF z = h[h[z].parent].left
                     THEN [h EXCEPT ![h[z].parent].left = yy]
                     ELSE [h EXCEPT ![h[z].parent].right = yy]
        \* x = (y->left == nil_) ? y->right : y->left;
        body(yy, x) ==
            IF yy # z
            THEN [_free_node(
                    [w EXCEPT !.mem =
                        s3(s2(s1(fix(splice(link(w.mem, yy, x), yy, x),
                                     yy, x), yy), yy), yy)], z)
                    EXCEPT !.size_ = @ - 1]
            ELSE [_free_node(
                    [w EXCEPT !.mem =
                        fix(splice(link(w.mem, yy, x), yy, x), yy, x)], yy)
                    EXCEPT !.size_ = @ - 1]
    IN  body(y, IF w.mem[y].left = nil_ THEN w.mem[y].right
                                        ELSE w.mem[y].left)

\* ---------------------------------------------------------------- iterator
RECURSIVE _next_climb(_, _, _)
\* while (y != set_->nil_ && x == y->right) { x = y; y = y->parent; }
_next_climb(m, x, y) ==
    IF (y # nil_) /\ (x = m[y].right)
    THEN _next_climb(m, y, m[y].parent) ELSE y

_next(m, prev) ==
    IF nil_ # m[prev].right
    THEN _tree_minimum(m, m[prev].right)
    ELSE LET y == _next_climb(m, prev, m[prev].parent)
         IN  IF y = root_ THEN nil_ ELSE y

\* iterator::_check_node: TRUE when it throws
_check_node(node) == node = NULLPTR

end(m) == nil_

begin(m) ==
    LET x == m[root_].left
    IN  IF x # nil_ THEN _tree_minimum(m, x) ELSE end(m)

find(m, key) ==
    LET node == _search(m, key)
    IN  IF node # nil_ THEN node ELSE end(m)

\* ------------------------------------------------------ several containers
\* Two objects of the instantiated template, this and other, as the copy and
\* move functions name them, and two allocators.  The nodes of one tree lie in
\* one arena; a block is named by its arena and, inside it, as above.
Objs == {"this", "other"}

Allocators == {"A1", "A2"}

\* allocator_ == nullptr
NoAllocator == "nullptr"

Arenas == 1..2

\* storage in which no set/map lives: before construction, after destruction
NoObject ==
    [live |-> FALSE, nil_ |-> NULLPTR, root_ |-> NULLPTR,
     allocator_ |-> NoAllocator, size_ |-> 0, arena |-> 0]

EmptyHeap ==
    [mem |-> [a \in Addr |-> Junk], blocks |-> {},
     from |-> [a \in Addr |-> NoAllocator]]

\* ----------------------------------------------------------------- vector<T>
\* include/nostd/vector.h.  heap[b] is the array of T the allocator returned
\* at address b, as long as it was requested; an element nothing has been
\* constructed in holds Indeterminate.  cont holds the arrays of the
\* allocator together with the members of the vector; peer holds the members
\* of a second vector on the same allocator.
VecMaxSize == 2

BufAddr == 1..(VecMaxSize + 1)

Indeterminate == -1

\* the values pushed
VecVals == {1}

\* vector(allocator * alloc)
vector(alloc) ==
    [live |-> TRUE, type |-> "vector", buffer_ |-> NULLPTR,
     buffer_size_ |-> 0, size_ |-> 0, allocator_ |-> alloc,
     heap |-> [b \in BufAddr |-> <<>>], blocks |-> {}]

\* the data members of the vector v
VecMembers(v) ==
    [live |-> v.live, type |-> v.type, buffer_ |-> v.buffer_,
     buffer_size_ |-> v.buffer_size_, size_ |-> v.size_,
     allocator_ |-> v.allocator_]

\* the vector of members m over the arrays of h
VecOver(m, h) ==
    [live |-> m.live, type |-> m.type, buffer_ |-> m.buffer_,
     buffer_size_ |-> m.buffer_size_, size_ |-> m.size_,
     allocator_ |-> m.allocator_, heap |-> h.heap, blocks |-> h.blocks]

\* a member function in progress: the vector; whether it has read or
\* written outside an array (oob), read an element that holds no value
\* (uninit) or called through a null allocator_ (null); the indices of the
\* old buffer that reserve has read (read); whether the allocator fails
\* (oom) and the exception thrown (err)
VecFailing(v, oom) ==
    [v |-> v, oob |-> FALSE, uninit |-> FALSE, null |-> FALSE, read |-> {},
     oom |-> oom, err |-> "none"]

VecStarted(v) == VecFailing(v, FALSE)

\* the function has thrown or has no defined continuation
VecStopped(st) == (st.err # "none") \/ st.null

\* _allocate_buffer(size), the allocator returning the address b
_allocate_buffer_of(v, b, size) ==
    [v EXCEPT !.blocks = @ \cup {b},
              !.heap[b] = [i \in 1..size |-> Indeterminate]]

\* the address the allocator returns next
FreshBuffer(v) == CHOOSE b \in BufAddr : b \notin v.blocks

\* new_buffer = _allocate_buffer(size); if (new_buffer == nullptr) throw
\* std::bad_alloc();  the call is allocator_->allocate(...)
_new_buffer(st, b, size) ==
    IF st.v.allocator_ = NoAllocator THEN [st EXCEPT !.null = TRUE]
    ELSE IF st.oom THEN [st EXCEPT !.err = "bad_alloc"]
    ELSE [st EXCEPT !.v = _allocate_buffer_of(st.v, b, size)]

\* _free_buffer(buffer)
_free_buffer(v, b) ==
    [v EXCEPT !.blocks = @ \ {b}, !.heap[b] = <<>>]

\* b + i lies outside the array at b
_outside(v, b, i) ==
    IF b = NULLPTR THEN TRUE ELSE i >= Len(v.heap[b])

\* b[i], which outside the array is whatever lies there
_element(v, b, i) ==
    IF _outside(v, b, i) THEN Indeterminate ELSE v.heap[b][i + 1]

\* the function reads b[i]
_read(st, b, i) ==
    [st EXCEPT !.oob = @ \/ _outside(st.v, b, i),
               !.uninit = @ \/ (_element(st.v, b, i) = Indeterminate),
               !.read = @ \cup {i}]

\* b[i] = value, or new (b + i) T(value)
_write(st, b, i, value) ==
    IF _outside(st.v, b, i) THEN [st EXCEPT !.oob = TRUE]
    ELSE [st EXCEPT !.v.heap[b][i + 1] = value]

RECURSIVE _move_elements(_, _, _)
\* for (size_type i = 0U; i < size_; ++i)
\*     new (new_buffer + i) T(utility::move(buffer_[i]));
_move_elements(st, new_buffer, i) ==
    IF i >= st.v.size_ THEN st
    ELSE _move_elements(
             _write(_read(st, st.v.buffer_, i), new_buffer, i,
                    _element(st.v, st.v.buffer_, i)),
             new_buffer, i + 1)

\* reserve(size)
reserve(st, size) ==
    LET \* T * new_buffer = _allocate_buffer(size);
        s1(s, b) == _new_buffer(s, b, size)
        release(s) == [s EXCEPT !.v = _free_buffer(s.v, s.v.buffer_)]
        \* if (buffer_ != nullptr) { move the elements;
        \*                           _free_buffer(buffer_); }
        s2(s, b) == IF VecStopped(s) THEN s
                    ELSE IF s.v.buffer_ = NULLPTR THEN s
                    ELSE release(_move_elements(s, b, 0))
        \* buffer_ = new_buffer;
        s3(s, b) == IF VecStopped(s) THEN s ELSE [s EXCEPT !.v.buffer_ = b]
        grow(s, b) == s3(s2(s1(s, b), b), b)
        \* if (size == 0U) { if (buffer_ != nullptr) { _free_buffer(buffer_);
        \*                                             buffer_ = nullptr; } }
        drop(s) == IF s.v.buffer_ = NULLPTR THEN s
                   ELSE [release(s) EXCEPT !.v.buffer_ = NULLPTR]
        body(s) == IF size = 0 THEN drop(s)
                   ELSE IF s.v.buffer_size_ < size
                   THEN grow(s, FreshBuffer(s.v))
                   ELSE s
        \* buffer_size_ = size;
        last(s) == IF VecStopped(s) THEN s
                   ELSE [s EXCEPT !.v.buffer_size_ = size]
    IN  last(body(st))

RECURSIVE _fill_default(_, _, _)
\* for (size_type i = old_size; i < new_size; ++i) new (buffer_ + i) T();
_fill_default(st, i, new_size) ==
    IF i >= new_size THEN st
    ELSE _fill_default(_write(st, st.v.buffer_, i, 0), i + 1, new_size)

\* resize(new_size); the elements are of a type whose destructor does nothing
resize(st, new_size) ==
    LET \* size_ = new_size;
        sized(s) == [s EXCEPT !.v.size_ = new_size]
        filled(s, old_size) ==
            IF VecStopped(s) THEN s ELSE _fill_default(s, old_size, new_size)
    IN  IF new_size <= st.v.size_ THEN sized(st)
        ELSE \* reserve(new_size + (new_size >> 2));
             filled(reserve(sized(st), new_size + (new_size \div 4)),
                    st.v.size_)

\* push_back(const T& value): resize(size_ + 1); buffer_[size_ - 1] = value;
vector_push_back(st, value) ==
    LET put(s) == IF VecStopped(s) THEN s
                  ELSE _write(s, s.v.buffer_, s.v.size_ - 1, value)
    IN  put(resize(st, st.v.size_ + 1))

\* pop_back()
vector_pop_back(st) ==
    IF st.v.size_ # 0
    THEN resize(st, st.v.size_ - 1)
    ELSE [st EXCEPT !.err = "range_error"]

\* clear(): the destructors of the elements do nothing
vector_clear(v) == [v EXCEPT !.size_ = 0]

\* _clean()
vector_clean(v) ==
    LET freed(c) == IF c.buffer_ = NULLPTR THEN c
                    ELSE [_free_buffer(c, c.buffer_) EXCEPT
                             !.buffer_ = NULLPTR]
    IN  [freed(vector_clear(v)) EXCEPT !.buffer_size_ = 0]

RECURSIVE _copy_elements(_, _, _)
\* for (size_type i = 0U; i < size_; ++i)
\*     new (buffer_ + i) T(other.buffer_[i]);
_copy_elements(st, other, i) ==
    IF i >= st.v.size_ THEN st
    ELSE _copy_elements(
             _write(_read(st, other.buffer_, i), st.v.buffer_, i,
                    _element(st.v, other.buffer_, i)),
             other, i + 1)

\* _set_by_copy(other), other being the members of another vector
vector_set_by_copy(st, other) ==
    LET \* _clean(); allocator_ = other.allocator_;
        \* buffer_size_ = other.buffer_size_;
        s1(s) == [s EXCEPT !.v = [vector_clean(s.v) EXCEPT
                                     !.allocator_ = other.allocator_,
                                     !.buffer_size_ = other.buffer_size_]]
        taken(s, b) == IF VecStopped(s) THEN s
                       ELSE [s EXCEPT !.v.buffer_ = b]
        \* buffer_ = _allocate_buffer(other.buffer_size_);
        alloc(s, b) == taken(_new_buffer(s, b, other.buffer_size_), b)
        s2(s) == IF other.buffer_size_ > 0 THEN alloc(s, FreshBuffer(s.v))
                 ELSE s
        \* size_ = other.size_; and the copy loop
        s3(s) == IF VecStopped(s) THEN s
                 ELSE _copy_elements([s EXCEPT !.v.size_ = other.size_],
                                     other, 0)
    IN  s3(s2(s1(st)))

\* _set_by_move(other): this vector and the members other is left with
vector_set_by_move(v, other) ==
    [v |-> [vector_clean(v) EXCEPT !.buffer_ = other.buffer_,
                                   !.allocator_ = other.allocator_,
                                   !.buffer_size_ = other.buffer_size_,
                                   !.size_ = other.size_],
     o |-> [other EXCEPT !.buffer_ = NULLPTR, !.allocator_ = NoAllocator,
                         !.buffer_size_ = 0, !.size_ = 0]]

\* swap(other)
vector_swap(v, other) ==
    [v |-> [v EXCEPT !.buffer_ = other.buffer_,
                     !.allocator_ = other.allocator_,
                     !.buffer_size_ = other.buffer_size_,
                     !.size_ = other.size_],
     o |-> [other EXCEPT !.buffer_ = v.buffer_,
                         !.allocator_ = v.allocator_,
                         !.buffer_size_ = v.buffer_size_,
                         !.size_ = v.size_]]

\* ------------------------------------------------------------------- pools
\* Sizes are counted in units of sizeof(node_type), the 8 bytes of the
\* free-list header: size_type (unsigned int) holds 2^32 bytes, which is
\* SizeTypeRange units.
HeaderSize == 1
SizeTypeRange == 536870912

\* the value an expression has once it is stored in a size_type
ToSizeType(x) == x % SizeTypeRange

\* A chunk is <<slab, offset>>: the slab's position in buffers_ and the
\* chunk's offset in it.  NullChunk is the nullptr an empty list pops.
NullChunk == <<0, 0>>

\* the pool before its constructor has run
NoPool ==
    [live |-> FALSE, debug |-> FALSE, num_chunks_ |-> 0, chunk_size_ |-> 0,
     head_ |-> NullChunk, next |-> <<>>,
     buffers_ |-> [vector(NoAllocator) EXCEPT !.live = FALSE], out |-> {},
     allocs |-> 0, frees |-> 0]

\* vector<byte_type*> buffers_ as a sequence: the size() elements the vector
\* counts; an element outside its array, or nothing was stored in, holds
\* Indeterminate.  A slab is known by its position in buffers_ and recorded
\* by its size.
Slabs(p) ==
    [i \in 1..p.buffers_.size_ |->
        _element(p.buffers_, p.buffers_.buffer_, i - 1)]

\* no list, stack or vector has been constructed
NoContainer == [live |-> FALSE]

\* no set/map allocates from the pool
NoRequests == [at |-> <<>>, sizes |-> {}]

ObjsIdle ==
    /\ objs = [o \in Objs |-> NoObject]
    /\ heaps = [r \in Arenas |-> EmptyHeap]
    /\ acount = [a \in Allocators |-> 0]
    /\ pool = NoPool
    /\ cont = NoContainer
    /\ palloc = NoRequests
    /\ peer = NoContainer

\* ------------------------------------------------------------ construction
_make_nil_node(w, a) ==
    [_allocate_node(w, a) EXCEPT !.mem[a] = node_t(a)]

_make_root_node(w, a) ==
    [_allocate_node(w, a) EXCEPT !.mem[a] = node_t(nil_)]

\* set(allocator * alloc) / map(allocator * alloc)
Init ==
    /\ kind \in {"set", "map"}
    /\ LET w0 == [mem |-> [a \in Addr |-> Junk], size_ |-> 0,
                  blocks |-> {}, count |-> 0]
           w1 == _make_nil_node(w0, nil_)
           w2 == _make_root_node(w1, root_)
       IN  /\ mem = w2.mem
           /\ size_ = w2.size_
           /\ blocks = w2.blocks
           /\ count = w2.count
    /\ it = NoIter
    /\ op = "init"
    /\ arg = 0
    /\ ret = 0
    /\ err = "none"
    /\ ref = {}
    /\ ObjsIdle

\* ------------------------------------------------------- member functions
\* Each returns the container and allocator after the call (w) together with
\* what the caller gets back.

\* variant of insert that assigns the payload to the node it found
insert_overwrite(w, v) ==
    LET existing == _search(w.mem, KeyOf(v))
    IN  IF existing # nil_
        THEN [w |-> [w EXCEPT !.mem[existing].data = v],
              ret |-> <<existing, FALSE>>]
        ELSE LET x  == KeyOf(v)
                 w1 == _allocate_node(w, x)
                 w2 == [w1 EXCEPT !.mem[x].data = v]
                 w3 == _insert(w2, x)
             IN  [w |-> w3, ret |-> <<x, TRUE>>]

\* insert(const T& value) / insert(T && value): the block allocated for a
\* payload is the one named by its key
insert(w, v) ==
    LET existing == _search(w.mem, KeyOf(v))
    IN  IF existing # nil_
        THEN [w |-> w, ret |-> <<existing, FALSE>>]
        ELSE LET x  == KeyOf(v)
                 w1 == _allocate_node(w, x)
                 w2 == [w1 EXCEPT !.mem[x].data = v]
                 w3 == _insert(w2, x)
             IN  [w |-> w3, ret |-> <<x, TRUE>>]

\* trusted_insert(const T& value) / trusted_insert(T && value)
trusted_insert(w, v) ==
    LET x  == KeyOf(v)
        w1 == _allocate_node(w, x)
        w2 == [w1 EXCEPT !.mem[x].data = v]
        w3 == _insert(w2, x)
    IN  [w |-> w3, ret |-> x]

\* variant of erase(iterator) that returns at end() instead of throwing
erase_iterator_silent(w, pos) ==
    IF pos = nil_
    THEN [w |-> w, err |-> "none"]
    ELSE [w |-> _delete(w, pos), err |-> "none"]

\* erase(iterator pos)
erase_iterator(w, pos) ==
    IF pos = nil_
    THEN [w |-> w, err |-> "runtime_error"]
    ELSE [w |-> _delete(w, pos), err |-> "none"]

\* _next(prev) reads a block that has been released
_next_dangling(m, b, prev) ==
    \/ prev \notin b
    \/ /\ m[prev].right = nil_
       /\ m[prev].parent \notin b

\* the for loop of erase(const T& value) / erase(const Key& key); uaf records
\* whether ++it read the links of a node that _delete had released
RECURSIVE _erase_loop(_, _, _, _, _)
_erase_loop(w, key, node, n, uaf) ==
    LET hit == KeyOf(w.mem[node].data) = key
        \* ++it, on the container the loop body left
        advance(w1) ==
            _erase_loop(w1, key, _next(w1.mem, node),
                        IF hit THEN n + 1 ELSE n,
                        uaf \/ _next_dangling(w1.mem, w1.blocks, node))
    IN  IF node = end(w.mem) THEN [w |-> w, ret |-> n, uaf |-> uaf]
        ELSE advance(IF hit THEN _delete(w, node) ELSE w)

erase_value(w, key) == _erase_loop(w, key, begin(w.mem), 0, FALSE)

\* variant of clear that leaves size_ alone
clear_keeps_size(w) ==
    LET w1 == _destroy_helper(w, w.mem[root_].left)
    IN  [w1 EXCEPT !.mem[root_].left = nil_]

\* clear()
clear(w) ==
    LET w1 == _destroy_helper(w, w.mem[root_].left)
        w2 == [w1 EXCEPT !.mem[root_].left = nil_]
    IN  [w2 EXCEPT !.size_ = 0]

\* ------------------------------------------------------------------ actions
\* the container and allocator part of the state becomes w; what a released
\* block holds is not part of the state
Commit(w) ==
    /\ mem' = Scrub(w.mem, w.blocks)
    /\ size_' = w.size_
    /\ blocks' = w.blocks
    /\ count' = w.count

\* a step that ran into undefined behaviour ends the run
\* the program runs on: it has not left defined behaviour and has not been
\* ended by std::terminate
Running == err \notin {"undefined", "terminate"}

HasKey(S, k) == \E d \in S : KeyOf(d) = k

Insert(v) ==
    /\ Running
    /\ LET r == insert(World, v)
       IN  /\ Commit(r.w)
           /\ ret' = r.ret
    /\ ref' = IF HasKey(ref, KeyOf(v)) THEN ref ELSE ref \cup {v}
    /\ op' = "insert"
    /\ arg' = v
    /\ err' = "none"
    /\ it' = NoIter
    /\ UNCHANGED <<kind, aux, pool, cont, palloc, peer>>

\* the caller guarantees that the element is not in the container
TrustedInsert(v) ==
    /\ Running
    /\ ~HasKey(ref, KeyOf(v))
    /\ LET r == trusted_insert(World, v)
       IN  /\ Commit(r.w)
           /\ ret' = r.ret
    /\ ref' = ref \cup {v}
    /\ op' = "trusted_insert"
    /\ arg' = v
    /\ err' = "none"
    /\ it' = NoIter
    /\ UNCHANGED <<kind, aux, pool, cont, palloc, peer>>

Find(k) ==
    /\ Running
    /\ it' = find(mem, k)
    /\ ret' = find(mem, k)
    /\ op' = "find"
    /\ arg' = k
    /\ err' = "none"
    /\ UNCHANGED <<kind, mem, size_, blocks, count, ref, aux, pool, cont, palloc, peer>>

Begin ==
    /\ Running
    /\ it' = begin(mem)
    /\ ret' = begin(mem)
    /\ op' = "begin"
    /\ arg' = 0
    /\ err' = "none"
    /\ UNCHANGED <<kind, mem, size_, blocks, count, ref, aux, pool, cont, palloc, peer>>

End ==
    /\ Running
    /\ it' = end(mem)
    /\ ret' = end(mem)
    /\ op' = "end"
    /\ arg' = 0
    /\ err' = "none"
    /\ UNCHANGED <<kind, mem, size_, blocks, count, ref, aux, pool, cont, palloc, peer>>

\* iterator::operator++ (prefix and postfix) on the iterator the caller
\* holds.  When _next reads a released block the step either ends the run or
\* yields whatever pointer the stale block happened to hold.
Increment ==
    /\ Running
    /\ it # NoIter
    /\ op' = "increment"
    /\ arg' = it
    /\ ret' = 0
    /\ IF _check_node(it)
       THEN /\ err' = "runtime_error"
            /\ it' = it
       ELSE IF _next_dangling(mem, blocks, it)
       THEN \/ /\ err' = "undefined"
               /\ it' = it
            \/ /\ err' = "none"
               /\ it' \in Addr \ {root_}
       ELSE /\ err' = "none"
            /\ it' = _next(mem, it)
    /\ UNCHANGED <<kind, mem, size_, blocks, count, ref, aux, pool, cont, palloc, peer>>

\* erase(pos), pos being the iterator the caller holds
Erase ==
    /\ Running
    /\ it # NoIter
    /\ op' = "erase"
    /\ arg' = it
    /\ ret' = 0
    /\ IF it \notin blocks
       THEN /\ err' = "undefined"
            /\ UNCHANGED <<mem, size_, blocks, count, ref, it>>
       ELSE LET r == erase_iterator(World, it)
            IN  /\ Commit(r.w)
                /\ err' = r.err
                /\ ref' = IF r.err = "none" THEN ref \ {mem[it].data} ELSE ref
                /\ it' = IF r.err = "none" THEN NoIter ELSE it
    /\ UNCHANGED <<kind, aux, pool, cont, palloc, peer>>

EraseValue(k) ==
    /\ Running
    /\ LET r == erase_value(World, k)
       IN  /\ Commit(r.w)
           /\ ret' = r.ret
           /\ IF r.uaf THEN err' \in {"none", "undefined"} ELSE err' = "none"
    /\ ref' = {d \in ref : KeyOf(d) # k}
    /\ op' = "erase_value"
    /\ arg' = k
    /\ it' = NoIter
    /\ UNCHANGED <<kind, aux, pool, cont, palloc, peer>>

Clear ==
    /\ Running
    /\ Commit(clear(World))
    /\ ref' = {}
    /\ op' = "clear"
    /\ arg' = 0
    /\ ret' = 0
    /\ err' = "none"
    /\ it' = NoIter
    /\ UNCHANGED <<kind, aux, pool, cont, palloc, peer>>

Next ==
    \/ \E v \in Payloads(kind) : Insert(v)
    \/ \E v \in Payloads(kind) : TrustedInsert(v)
    \/ \E k \in KeysOfKind(kind) : Find(k)
    \/ Begin
    \/ End
    \/ Increment
    \/ Erase
    \/ \E k \in KeysOfKind(kind) : EraseValue(k)
    \/ Clear

Spec == Init /\ [][Next]_vars

\* insert() calls only, from the empty container
NextInsert == \E v \in Payloads(kind) : Insert(v)

SpecInsert == Init /\ [][NextInsert]_vars

\* the container is constructed and not destroyed: it holds its sentinels
Alive == {nil_, root_} \subseteq blocks

\* ~set(), ~map()
Destroy ==
    /\ Running
    /\ Alive
    /\ Commit(_clean(World))
    /\ ref' = {}
    /\ op' = "destroy"
    /\ arg' = 0
    /\ ret' = 0
    /\ err' = "none"
    /\ it' = NoIter
    /\ UNCHANGED <<kind, aux, pool, cont, palloc, peer>>

\* a container's life: insert, find, erase and clear calls, then destruction
NextDestroy ==
    \/ Alive /\ \E v \in Payloads(kind) : Insert(v)
    \/ Alive /\ \E k \in KeysOfKind(kind) : Find(k)
    \/ Alive /\ Erase
    \/ Alive /\ \E k \in KeysOfKind(kind) : EraseValue(k)
    \/ Alive /\ Clear
    \/ Destroy

SpecDestroy == Init /\ [][NextDestroy]_vars

\* ------------------------------------------- copy, move, destroy of objects
\* bounds of the scenarios with two objects
CopyMaxKey == 3

\* the payloads the scenarios store: one per key, a map's value being other
\* than the default T()
CopyPayloads(k) ==
    IF k = "set" THEN 1..CopyMaxKey
    ELSE {<<key, 1>> : key \in 1..CopyMaxKey}

\* the number of allocations that succeed before operator new[] throws; a
\* copy needs at most CopyMaxKey + 2
Budgets == 0..(CopyMaxKey + 2)

ObjWorld == [objs |-> objs, heaps |-> heaps, acount |-> acount]

\* the arena the allocator's next blocks lie in: one with nothing outstanding
FreshArena(ow) ==
    CHOOSE r \in Arenas :
        /\ ow.heaps[r].blocks = {}
        /\ \A q \in Arenas : (q < r) => (ow.heaps[q].blocks # {})

\* the tree functions' view of the nodes in arena r
TreeIn(ow, r, size) ==
    [mem |-> ow.heaps[r].mem, size_ |-> size, blocks |-> ow.heaps[r].blocks,
     count |-> 0]

\* A function that can throw is a function of st = [ow, err, budget]; a
\* statement after the throwing one leaves st alone.

\* allocator_->allocate(sizeof(node_t)) by object o, the block being a of
\* arena r; test_allocator::allocate counts before operator new[] can throw
_allocate_node_in(st, o, r, a) ==
    IF st.err # "none" THEN st
    ELSE IF st.ow.objs[o].allocator_ = NoAllocator
    THEN [st EXCEPT !.err = "undefined"]
    ELSE IF st.budget = 0
    THEN [st EXCEPT !.err = "bad_alloc",
                    !.ow.acount[st.ow.objs[o].allocator_] = @ + 1]
    ELSE [st EXCEPT !.budget = @ - 1,
                    !.ow.acount[st.ow.objs[o].allocator_] = @ + 1,
                    !.ow.heaps[r].blocks = @ \cup {a},
                    !.ow.heaps[r].from[a] = st.ow.objs[o].allocator_]

\* nil_ = _make_nil_node();
_make_nil_node_in(st, o) ==
    LET r == FreshArena(st.ow)
        construct(s) ==
            IF s.err # "none" THEN s
            ELSE [s EXCEPT !.ow.heaps[r].mem[nil_] = node_t(nil_),
                           !.ow.objs[o].nil_ = nil_,
                           !.ow.objs[o].arena = r]
    IN  construct(_allocate_node_in(st, o, r, nil_))

\* root_ = _make_root_node();
_make_root_node_in(st, o) ==
    LET construct(s) ==
            IF s.err # "none" THEN s
            ELSE [s EXCEPT !.ow.heaps[s.ow.objs[o].arena].mem[root_] =
                               node_t(s.ow.objs[o].nil_),
                           !.ow.objs[o].root_ = root_]
    IN  construct(_allocate_node_in(st, o, st.ow.objs[o].arena, root_))

\* _clean() of object o; count_ is the 32-bit counter read as a signed number
_clean_in(ow, o) ==
    LET \* if (root_ != nullptr) { _destroy_helper(root_->left);
        \*                         _free_node(root_); root_ = nullptr; }
        destroyed(w) ==
            _destroy_helper(TreeIn(w, w.objs[o].arena, 0),
                            w.heaps[w.objs[o].arena].mem[root_].left)
        freed(w, d) ==
            [w EXCEPT !.heaps[w.objs[o].arena].blocks = d.blocks \ {root_},
                      !.acount[w.objs[o].allocator_] = @ + d.count - 1,
                      !.objs[o].root_ = NULLPTR]
        s1(w) == IF w.objs[o].root_ # NULLPTR
                 THEN freed(w, destroyed(w)) ELSE w
        \* if (nil_ != nullptr) { _free_node(nil_); nil_ = nullptr; }
        s2(w) == IF w.objs[o].nil_ # NULLPTR
                 THEN [w EXCEPT !.heaps[w.objs[o].arena].blocks = @ \ {nil_},
                                !.acount[w.objs[o].allocator_] = @ - 1,
                                !.objs[o].nil_ = NULLPTR]
                 ELSE w
        \* an object without sentinels refers to no arena
        s3(w) == [w EXCEPT !.objs[o].arena = 0]
    IN  s3(s2(s1(ow)))

\* the for loop of _set_by_copy, it.node_ being node
RECURSIVE _set_by_copy_loop(_, _, _, _)
_set_by_copy_loop(st, this, other, node) ==
    LET data == st.ow.heaps[st.ow.objs[other].arena].mem[node].data
        \* x->data = it.node_->data; (void)_insert(x);
        inserted(s) ==
            _insert([TreeIn(s.ow, s.ow.objs[this].arena,
                            s.ow.objs[this].size_)
                        EXCEPT !.mem[KeyOf(data)].data = data], KeyOf(data))
        put(s, w) ==
            [s EXCEPT !.ow.heaps[s.ow.objs[this].arena].mem = w.mem,
                      !.ow.objs[this].size_ = w.size_]
        body(s) == IF s.err # "none" THEN s ELSE put(s, inserted(s))
        \* ++it
        advance(s) ==
            IF s.err # "none" THEN s
            ELSE _set_by_copy_loop(
                   s, this, other,
                   _next(s.ow.heaps[s.ow.objs[other].arena].mem, node))
    IN  \* it != other.end()
        IF node = st.ow.objs[other].nil_ THEN st
        ELSE advance(body(_allocate_node_in(st, this,
                                            st.ow.objs[this].arena,
                                            KeyOf(data))))

\* _set_by_copy(other) of object this
_set_by_copy(st, this, other) ==
    LET s0(s) == [s EXCEPT !.ow = _clean_in(s.ow, this)]
        \* allocator_ = other.allocator_; size_ = 0U;
        s3(s) == IF s.err # "none" THEN s
                 ELSE [s EXCEPT !.ow.objs[this].allocator_ =
                                    s.ow.objs[other].allocator_,
                                !.ow.objs[this].size_ = 0]
        \* other.begin() reads other.root_->left
        s4(s) == IF s.err # "none" THEN s
                 ELSE IF s.ow.objs[other].root_ = NULLPTR
                 THEN [s EXCEPT !.err = "undefined"]
                 ELSE _set_by_copy_loop(
                        s, this, other,
                        begin(s.ow.heaps[s.ow.objs[other].arena].mem))
    IN  s4(s3(_make_root_node_in(_make_nil_node_in(s0(st), this), this)))

\* _set_by_move(other) of object this
_set_by_move(ow, this, other) ==
    LET \* nil_ = other.nil_; root_ = other.root_;
        \* allocator_ = other.allocator_; size_ = other.size_;
        s1(w) == [w EXCEPT !.objs[this].nil_ = w.objs[other].nil_,
                           !.objs[this].root_ = w.objs[other].root_,
                           !.objs[this].allocator_ = w.objs[other].allocator_,
                           !.objs[this].size_ = w.objs[other].size_,
                           !.objs[this].arena = w.objs[other].arena]
        \* other.nil_ = nullptr; other.root_ = nullptr;
        \* other.allocator_ = nullptr; other.size_ = 0U;
        s2(w) == [w EXCEPT !.objs[other].nil_ = NULLPTR,
                           !.objs[other].root_ = NULLPTR,
                           !.objs[other].allocator_ = NoAllocator,
                           !.objs[other].size_ = 0,
                           !.objs[other].arena = 0]
    IN  s2(s1(_clean_in(ow, this)))

\* swap(other) of object this
swap(ow, this, other) ==
    [ow EXCEPT !.objs[this].nil_ = ow.objs[other].nil_,
               !.objs[other].nil_ = ow.objs[this].nil_,
               !.objs[this].root_ = ow.objs[other].root_,
               !.objs[other].root_ = ow.objs[this].root_,
               !.objs[this].size_ = ow.objs[other].size_,
               !.objs[other].size_ = ow.objs[this].size_,
               !.objs[this].allocator_ = ow.objs[other].allocator_,
               !.objs[other].allocator_ = ow.objs[this].allocator_,
               !.objs[this].arena = ow.objs[other].arena,
               !.objs[other].arena = ow.objs[this].arena]

\* the member initialisers nil_(nullptr), root_(nullptr), allocator_(alloc),
\* size_(0U) of a constructor
Members(ow, o, alloc) ==
    [ow EXCEPT !.objs[o] = [NoObject EXCEPT !.live = TRUE,
                                            !.allocator_ = alloc]]

\* set(allocator * alloc) / map(allocator * alloc)
set_alloc(st, o, alloc) ==
    _make_root_node_in(
        _make_nil_node_in([st EXCEPT !.ow = Members(st.ow, o, alloc)], o), o)

\* set(const set& other) / map(const map& other)
set_copy(st, this, other) ==
    _set_by_copy([st EXCEPT !.ow = Members(st.ow, this, NoAllocator)],
                 this, other)

\* set(set && other) / map(map && other)
set_move(ow, this, other) ==
    _set_by_move(Members(ow, this, NoAllocator), this, other)

\* ~set() / ~map()
set_destroy(ow, o) ==
    [_clean_in(ow, o) EXCEPT !.objs[o] = NoObject]

\* the state after a call: what released blocks hold is not part of it
CommitObjs(ow) ==
    /\ objs' = ow.objs
    /\ heaps' = [r \in Arenas |->
                   [mem |-> Scrub(ow.heaps[r].mem, ow.heaps[r].blocks),
                    blocks |-> ow.heaps[r].blocks,
                    from |-> [a \in Addr |->
                                IF a \in ow.heaps[r].blocks
                                THEN ow.heaps[r].from[a] ELSE NoAllocator]]]
    /\ acount' = ow.acount

Started(ow, budget) == [ow |-> ow, err |-> "none", budget |-> budget]

\* the blocks allocator a has handed out and not got back
Outstanding(a) ==
    {ra \in Arenas \X Addr :
        /\ ra[2] \in heaps[ra[1]].blocks
        /\ heaps[ra[1]].from[ra[2]] = a}

\* every count_ is the number of blocks its allocator has outstanding: no
\* allocation has failed and no block went back to another allocator.  The
\* scenarios inject a failure, and construct anew, only while this holds,
\* which keeps the counters bounded.
Balanced == \A a \in Allocators : acount[a] = Cardinality(Outstanding(a))

NoFail == CopyMaxKey + 2

\* set<T> o(alloc);
ConstructO(o, alloc) ==
    /\ Running
    /\ ~objs[o].live
    /\ Balanced
    /\ CommitObjs(set_alloc(Started(ObjWorld, NoFail), o, alloc).ow)
    /\ op' = "construct"
    /\ arg' = o
    /\ err' = "none"
    /\ ret' = 0
    /\ UNCHANGED <<kind, tree, pool, cont, palloc, peer>>

\* o.insert(v) by way of the member function above
InsertO(o, v) ==
    /\ Running
    /\ objs[o].live
    /\ op' = "insert_in"
    /\ arg' = o
    /\ IF objs[o].root_ = NULLPTR
       THEN /\ err' = "undefined"
            /\ UNCHANGED aux
       ELSE LET r == insert(TreeIn(ObjWorld, objs[o].arena, objs[o].size_), v)
            IN  /\ err' = "none"
                /\ CommitObjs(
                     [ObjWorld EXCEPT
                        !.heaps[objs[o].arena].mem = r.w.mem,
                        !.heaps[objs[o].arena].blocks = r.w.blocks,
                        !.heaps[objs[o].arena].from =
                            [a \in Addr |->
                               IF a \in r.w.blocks \ heaps[objs[o].arena].blocks
                               THEN objs[o].allocator_ ELSE @[a]],
                        !.objs[o].size_ = r.w.size_,
                        !.acount[objs[o].allocator_] = @ + r.w.count])
    /\ ret' = 0
    /\ UNCHANGED <<kind, tree, pool, cont, palloc, peer>>

\* set<T> this(other);  the allocator fails after budget allocations
CopyConstruct(budget) ==
    /\ Running
    /\ ~objs["this"].live
    /\ objs["other"].live
    /\ (budget < NoFail) => Balanced
    /\ op' = "copy_construct"
    /\ arg' = budget
    /\ LET r == set_copy(Started(ObjWorld, budget), "this", "other")
       IN  /\ err' = r.err
           /\ IF r.err = "undefined" THEN UNCHANGED aux
              ELSE IF r.err = "bad_alloc"
              \* the constructor did not complete: no object, no destructor
              THEN CommitObjs([r.ow EXCEPT !.objs["this"] = NoObject])
              ELSE CommitObjs(r.ow)
    /\ ret' = 0
    /\ UNCHANGED <<kind, tree, pool, cont, palloc, peer>>

\* this = other;  set::operator= flows off its end without a return
\* statement, map::operator= returns *this
CopyAssign(budget) ==
    /\ Running
    /\ objs["this"].live
    /\ objs["other"].live
    /\ (budget < NoFail) => Balanced
    /\ op' = "copy_assign"
    /\ arg' = budget
    /\ LET r == _set_by_copy(Started(ObjWorld, budget), "this", "other")
       IN  /\ IF r.err = "none" /\ kind = "set"
              THEN err' \in {"none", "undefined"}
              ELSE err' = r.err
           /\ IF r.err = "undefined" THEN UNCHANGED aux
              ELSE CommitObjs(r.ow)
    /\ ret' = 0
    /\ UNCHANGED <<kind, tree, pool, cont, palloc, peer>>

\* set<T> this(utility::move(other));
MoveConstruct ==
    /\ Running
    /\ ~objs["this"].live
    /\ objs["other"].live
    /\ op' = "move_construct"
    /\ arg' = 0
    /\ err' = "none"
    /\ CommitObjs(set_move(ObjWorld, "this", "other"))
    /\ ret' = 0
    /\ UNCHANGED <<kind, tree, pool, cont, palloc, peer>>

\* this = utility::move(other);
MoveAssign ==
    /\ Running
    /\ objs["this"].live
    /\ objs["other"].live
    /\ op' = "move_assign"
    /\ arg' = 0
    /\ err' = "none"
    /\ CommitObjs(_set_by_move(ObjWorld, "this", "other"))
    /\ ret' = 0
    /\ UNCHANGED <<kind, tree, pool, cont, palloc, peer>>

\* this.swap(other);
Swap ==
    /\ Running
    /\ objs["this"].live
    /\ objs["other"].live
    /\ op' = "swap"
    /\ arg' = 0
    /\ err' = "none"
    /\ CommitObjs(swap(ObjWorld, "this", "other"))
    /\ ret' = 0
    /\ UNCHANGED <<kind, tree, pool, cont, palloc, peer>>

\* o.begin(): reads root_->left
BeginO(o) ==
    /\ Running
    /\ objs[o].live
    /\ op' = "begin_in"
    /\ arg' = o
    /\ IF objs[o].root_ = NULLPTR
       THEN /\ err' = "undefined"
            /\ ret' = 0
       ELSE /\ err' = "none"
            /\ ret' = begin(heaps[objs[o].arena].mem)
    /\ UNCHANGED <<kind, tree, aux, pool, cont, palloc, peer>>

\* o.end(): iterator(this, nil_)
EndO(o) ==
    /\ Running
    /\ objs[o].live
    /\ op' = "end_in"
    /\ arg' = o
    /\ err' = "none"
    /\ ret' = objs[o].nil_
    /\ UNCHANGED <<kind, tree, aux, pool, cont, palloc, peer>>

\* o.clear(): reads root_->left
ClearO(o) ==
    /\ Running
    /\ objs[o].live
    /\ op' = "clear_in"
    /\ arg' = o
    /\ IF objs[o].root_ = NULLPTR
       THEN /\ err' = "undefined"
            /\ UNCHANGED aux
       ELSE LET w == clear(TreeIn(ObjWorld, objs[o].arena, objs[o].size_))
            IN  /\ err' = "none"
                /\ CommitObjs(
                     [ObjWorld EXCEPT
                        !.heaps[objs[o].arena].mem = w.mem,
                        !.heaps[objs[o].arena].blocks = w.blocks,
                        !.objs[o].size_ = w.size_,
                        !.acount[objs[o].allocator_] = @ + w.count])
    /\ ret' = 0
    /\ UNCHANGED <<kind, tree, pool, cont, palloc, peer>>

\* o.~set()
DestroyO(o) ==
    /\ Running
    /\ objs[o].live
    /\ op' = "destroy"
    /\ arg' = o
    /\ err' = "none"
    /\ CommitObjs(set_destroy(ObjWorld, o))
    /\ ret' = 0
    /\ UNCHANGED <<kind, tree, pool, cont, palloc, peer>>

\* o = o;  operator= hands the object itself to _set_by_copy, which makes
\* no test for &other == this
SelfAssign(o) ==
    /\ Running
    /\ objs[o].live
    /\ op' = "self_assign"
    /\ arg' = o
    /\ LET r == _set_by_copy(Started(ObjWorld, NoFail), o, o)
       IN  /\ IF r.err = "none" /\ kind = "set"
              THEN err' \in {"none", "undefined"}
              ELSE err' = r.err
           /\ IF r.err = "undefined" THEN UNCHANGED aux
              ELSE CommitObjs(r.ow)
    /\ ret' = 0
    /\ UNCHANGED <<kind, tree, pool, cont, palloc, peer>>

NextCopy ==
    \/ ConstructO("other", "A1")
    \/ ConstructO("this", "A2")
    \/ \E v \in CopyPayloads(kind) : InsertO("other", v)
    \/ \E v \in {d \in CopyPayloads(kind) : KeyOf(d) = 1} : InsertO("this", v)
    \/ \E b \in Budgets : CopyConstruct(b)
    \/ \E b \in Budgets : CopyAssign(b)
    \/ SelfAssign("other")
    \/ MoveConstruct
    \/ MoveAssign
    \/ Swap
    \/ BeginO("other")
    \/ EndO("other")
    \/ ClearO("other")
    \/ \E o \in Objs : DestroyO(o)

SpecCopy == Init /\ [][NextCopy]_vars

\* ------------------------------------------------- pool allocator functions
MaxChunks == 2
MaxSlabs == 2
MaxSize == 2
MaxCalls == 5

\* the sizes a caller requests: small ones, and the largest multiple of the
\* header size a size_type holds
Sizes == (1..MaxSize) \cup {SizeTypeRange - 1}

\* the pointers allocate can return for those sizes
Pointers == (0..MaxSlabs) \X (0..(MaxChunks * (HeaderSize + MaxSize)))

\* stack_linked_list::push: new_node->next = head_; head_ = new_node;
push(p, new_node) ==
    [p EXCEPT !.next = (new_node :> p.head_) @@ p.next,
              !.head_ = new_node]

\* variant of pop that returns the top node and leaves it linked
pop_keep_top(p) == [p |-> p, top |-> p.head_]

\* stack_linked_list::pop: the list after the call and the node returned
pop(p) ==
    [p   |-> IF p.head_ # NullChunk
             THEN [p EXCEPT !.head_ = p.next[p.head_]] ELSE p,
     top |-> p.head_]

\* A function that can throw or overrun is a function of
\* st = [p, err, ub, null, oom]: the pool, the exception raised, whether a
\* read or write went outside an array, whether a call went through a null
\* allocator_, and which operator new[] fails.

\* the operator new[] that throws: none, the one for the slab, or the one
\* buffers_.push_back makes to grow its array
PoolFailures == {"none", "slab", "record"}

\* _allocate_buffer(): new byte_type[size_to_allocate], then
\* buffers_.push_back(buffer).  The slab is recorded by its
\* size_to_allocate; when push_back throws, the slab is recorded nowhere.
_allocate_buffer(st) ==
    LET size_to_allocate(p) == ToSizeType(p.num_chunks_ * p.chunk_size_)
        recorded(s, pushed) ==
            [s EXCEPT !.p.buffers_ = pushed.v,
                      !.err = pushed.err,
                      !.ub = @ \/ pushed.oob \/ pushed.uninit,
                      !.null = pushed.null]
    IN  IF st.oom = "slab"
        THEN [st EXCEPT !.err = "bad_alloc"]
        ELSE recorded(st, vector_push_back(
                              VecFailing(st.p.buffers_, st.oom = "record"),
                              size_to_allocate(st.p)))

\* variant of the loop that links only the first chunk of the slab
_link_chunks_one(st, buffer, i) ==
    IF i >= st.p.num_chunks_ THEN st
    ELSE LET node_ptr == <<buffer, ToSizeType(i * st.p.chunk_size_)>>
             overrun  == node_ptr[2] + HeaderSize > Slabs(st.p)[buffer]
         IN  [st EXCEPT !.p = push(st.p, node_ptr), !.ub = @ \/ overrun]

RECURSIVE _link_chunks(_, _, _)
\* for (i = 0; i < num_chunks_; ++i) free_list_.push(buffer + i * chunk_size_);
\* the header of a chunk is written when it is pushed
_link_chunks(st, buffer, i) ==
    IF i >= st.p.num_chunks_ THEN st
    ELSE LET node_ptr == <<buffer, ToSizeType(i * st.p.chunk_size_)>>
             overrun  == node_ptr[2] + HeaderSize > Slabs(st.p)[buffer]
         IN  _link_chunks([st EXCEPT !.p = push(st.p, node_ptr),
                                     !.ub = @ \/ overrun],
                          buffer, i + 1)

\* the body of if (free_node == nullptr) { ... }
_grow(st, size) ==
    LET \* if (buffers_.empty()) chunk_size_ = sizeof(node_type) + size;
        s1(t) == IF t.p.buffers_.size_ = 0
                 THEN [t EXCEPT !.p.chunk_size_ = ToSizeType(HeaderSize + size)]
                 ELSE t
        \* byte_type* buffer = _allocate_buffer();
        s2(t) == _allocate_buffer(t)
        s3(t) == IF (t.err # "none") \/ t.null THEN t
                 ELSE _link_chunks(t, t.p.buffers_.size_, 0)
    IN  s3(s2(s1(st)))

\* the assert of allocate, compiled in unless NDEBUG is defined; the sum is
\* computed in size_t and is not narrowed
_assert_size(p, size) ==
    (p.buffers_.size_ = 0) \/ (HeaderSize + size = p.chunk_size_)

\* variant of free that appends the chunk behind the list instead of
\* pushing it on top
free_fifo(p, ptr) ==
    LET node_ptr == <<ptr[1], ptr[2] - HeaderSize>>
        RECURSIVE Last(_, _)
        Last(c, fuel) == IF fuel = 0 \/ p.next[c] = NullChunk THEN c
                         ELSE Last(p.next[c], fuel - 1)
    IN  IF p.head_ = NullChunk
        THEN [push(p, node_ptr) EXCEPT !.out = @ \ {ptr}, !.frees = @ + 1]
        ELSE [p EXCEPT !.next = (node_ptr :> NullChunk) @@
                                [p.next EXCEPT ![Last(p.head_, MaxCalls)] = node_ptr],
                       !.out = @ \ {ptr},
                       !.frees = @ + 1]

\* pool_allocator::free(ptr)
free(p, ptr) ==
    LET node_ptr == <<ptr[1], ptr[2] - HeaderSize>>
    IN  [push(p, node_ptr) EXCEPT !.out = @ \ {ptr}, !.frees = @ + 1]

\* pool_allocator::allocate(size): the pool after the call, the pointer
\* returned, the exception raised and whether a slab was overrun
allocate(p, size, oom) ==
    LET st0 == [p |-> p, err |-> "none", ub |-> FALSE, null |-> FALSE,
                oom |-> oom]
        popped(t) == pop(t.p)
        \* node_type * free_node = free_list_.pop();
        \* if (free_node == nullptr) { ...; free_node = free_list_.pop(); }
        grown(g) == [st |-> [g EXCEPT !.p = IF (g.err = "none") /\ ~g.null
                                              THEN pop(g.p).p ELSE g.p],
                     free_node |-> pop(g.p).top]
        s1(t) == IF popped(t).top # NullChunk
                 THEN [st |-> [t EXCEPT !.p = popped(t).p],
                       free_node |-> popped(t).top]
                 ELSE grown(_grow(t, size))
        address(r) == <<r.free_node[1], r.free_node[2] + HeaderSize>>
        done(r) == IF r.st.null
                   THEN [p |-> r.st.p, ret |-> NullChunk, err |-> "undefined",
                         ub |-> r.st.ub]
                   ELSE IF r.st.err # "none"
                   THEN [p |-> r.st.p, ret |-> NullChunk, err |-> r.st.err,
                         ub |-> r.st.ub]
                   ELSE [p |-> [r.st.p EXCEPT !.out = @ \cup {address(r)},
                                              !.allocs = @ + 1],
                         ret |-> address(r), err |-> "none", ub |-> r.st.ub]
    IN  IF p.debug /\ ~_assert_size(p, size)
        THEN [p |-> p, ret |-> NullChunk, err |-> "assertion", ub |-> FALSE]
        ELSE done(s1(st0))

\* pool_allocator(num_chunks)
pool_allocator(num_chunks, debug) ==
    [live |-> TRUE, debug |-> debug, num_chunks_ |-> num_chunks,
     chunk_size_ |-> 0, head_ |-> NullChunk, next |-> <<>>,
     buffers_ |-> vector("default"), out |-> {}, allocs |-> 0, frees |-> 0]

\* pool_allocator(pool_allocator&& other): what other is left with.  The
\* free list and the slabs, and with them the chunks handed out, now belong
\* to the new pool.
pool_moved_from(other) ==
    [other EXCEPT
        !.chunk_size_ = 0,
        \* stack_linked_list(stack_linked_list&&): other.head_ = nullptr
        !.head_ = NullChunk,
        !.next = <<>>,
        \* vector(vector&&): _set_by_move
        !.buffers_ = VecOver(vector_set_by_move(vector(NoAllocator),
                                                VecMembers(@)).o,
                             vector("default")),
        !.out = {}, !.allocs = 0, !.frees = 0]

\* ~pool_allocator(): for (auto buffer : buffers_) delete[] buffer;
\* TRUE when the loop hands delete[] an element that holds no slab
pool_deletes_garbage(p) ==
    \E i \in DOMAIN Slabs(p) : Slabs(p)[i] = Indeterminate

\* a failed assertion aborts the program
PoolRunning == Running /\ err # "assertion"

\* pool_allocator pool(num_chunks); built with or without NDEBUG
PoolConstruct(num_chunks, debug) ==
    /\ PoolRunning
    /\ ~pool.live
    /\ pool' = pool_allocator(num_chunks, debug)
    /\ op' = "pool_allocator"
    /\ arg' = num_chunks
    /\ ret' = 0
    /\ err' = "none"
    /\ UNCHANGED <<kind, tree, aux, cont, palloc, peer>>

\* ret = pool.allocate(size);
PoolAllocate(size, oom) ==
    /\ PoolRunning
    /\ pool.live
    /\ pool.allocs < MaxCalls
    /\ (pool.head_ = NullChunk) => (pool.buffers_.size_ < MaxSlabs)
    /\ (oom # "none") => (pool.head_ = NullChunk)
    /\ LET r == allocate(pool, size, oom)
       IN  /\ pool' = r.p
           /\ ret' = r.ret
           /\ IF r.ub THEN err' \in {r.err, "undefined"} ELSE err' = r.err
    /\ op' = "allocate"
    /\ arg' = size
    /\ UNCHANGED <<kind, tree, aux, cont, palloc, peer>>

\* pool.free(ptr); for a pointer allocate returned and that is not yet freed
PoolFree(ptr) ==
    /\ PoolRunning
    /\ pool.live
    /\ ptr \in pool.out
    /\ IF <<ptr[1], ptr[2] - HeaderSize>> = NullChunk
       THEN /\ err' = "undefined"
            /\ UNCHANGED pool
       ELSE /\ err' = "none"
            /\ pool' = free(pool, ptr)
    /\ op' = "free"
    /\ arg' = ptr
    /\ ret' = 0
    /\ UNCHANGED <<kind, tree, aux, cont, palloc, peer>>

\* pool_allocator other(utility::move(pool));
PoolMove ==
    /\ PoolRunning
    /\ pool.live
    /\ pool' = pool_moved_from(pool)
    /\ op' = "pool_move"
    /\ arg' = 0
    /\ ret' = 0
    /\ err' = "none"
    /\ UNCHANGED <<kind, tree, aux, cont, palloc, peer>>

\* ~pool_allocator(); the pointers handed out dangle from here on
PoolDestroy ==
    /\ PoolRunning
    /\ pool.live
    /\ pool' = NoPool
    /\ op' = "pool_destroy"
    /\ arg' = 0
    /\ ret' = 0
    /\ IF pool_deletes_garbage(pool)
       THEN err' \in {"none", "undefined"}
       ELSE err' = "none"
    /\ UNCHANGED <<kind, tree, aux, cont, palloc, peer>>

NextPool ==
    \/ \E n \in 0..MaxChunks, d \in BOOLEAN : PoolConstruct(n, d)
    \/ \E s \in Sizes, o \in PoolFailures : PoolAllocate(s, o)
    \/ \E ptr \in Pointers : PoolFree(ptr)
    \/ PoolMove
    \/ PoolDestroy

SpecPool == Init /\ [][NextPool]_vars

\* ------------------------------------------- a set/map on a pool_allocator
NodeMaxKey == 3

\* the allocate calls a run may contain: the sentinels, every key, and one
\* key again
NodeMaxCalls == NodeMaxKey + 3

\* sizeof(node_t) in units of the header size: three pointers, the colour
\* and the payload, an int for set<int> and a pair of ints for map<int, int>
sizeof_node_t == IF kind = "set" THEN 4 ELSE 5

\* The allocator calls of a member function are a function of
\* st = [p, u, err, ub]: the pool, the container's requests, the error raised
\* and whether the pool read or wrote outside an array.
PoolCalls == [p |-> pool, u |-> palloc, err |-> "none", ub |-> FALSE]

\* the outcomes of a call: what it raised, or anything once it has left the
\* bounds of an array
Outcomes(st) == IF st.ub THEN {st.err, "undefined"} ELSE {st.err}

\* allocator_->allocate(size) for the block the tree knows as a
_request(st, a, size) ==
    LET r == allocate(st.p, size, "none")
        asked(s) == [s EXCEPT !.u.sizes = @ \cup {size}, !.ub = @ \/ r.ub]
    IN  IF st.err # "none" THEN st
        ELSE IF r.err # "none" THEN [asked(st) EXCEPT !.err = r.err]
        ELSE [asked(st) EXCEPT !.p = r.p, !.u.at = (a :> r.ret) @@ @]

\* _allocate_node(): allocator_->allocate(sizeof(node_t))
_allocate_node_pool(st, a) == _request(st, a, sizeof_node_t)

\* variant of _make_nil_node that requests a node without room for a payload
_make_nil_node_bare(st) == _request(st, nil_, sizeof_node_t - 1)

\* _make_nil_node(): node_t * node = _allocate_node();
_make_nil_node_pool(st) == _allocate_node_pool(st, nil_)

\* _make_root_node(): node_t * node = _allocate_node();
_make_root_node_pool(st) == _allocate_node_pool(st, root_)

\* _free_node(node): allocator_->free(node)
_free_node_pool(st, a) ==
    IF st.err # "none" THEN st
    ELSE [st EXCEPT !.p = free(st.p, st.u.at[a]),
                    !.u.at = [b \in (DOMAIN st.u.at) \ {a} |-> st.u.at[b]]]

RECURSIVE _destroy_helper_pool(_, _, _)
\* the _free_node calls of _destroy_helper(x), in its order: left subtree,
\* right subtree, x
_destroy_helper_pool(st, m, x) ==
    IF x = nil_ THEN st
    ELSE _free_node_pool(
             _destroy_helper_pool(_destroy_helper_pool(st, m, m[x].left),
                                  m, m[x].right),
             x)

\* the payloads of these scenarios: one per key
NodePayloads ==
    IF kind = "set" THEN 1..NodeMaxKey
    ELSE {<<key, 1>> : key \in 1..NodeMaxKey}

\* no container yet: the pool is constructed first
InitNodePool ==
    /\ kind \in {"set", "map"}
    /\ mem = [a \in Addr |-> Junk]
    /\ size_ = 0
    /\ blocks = {}
    /\ count = 0
    /\ it = NoIter
    /\ op = "init"
    /\ arg = 0
    /\ ret = 0
    /\ err = "none"
    /\ ref = {}
    /\ ObjsIdle

\* the tree part of the state after a call that raised e
CommitOr(e, w) ==
    IF e = "none" THEN Commit(w) ELSE UNCHANGED <<mem, size_, blocks, count>>

\* set<T> s(&pool); map<Key, T> m(&pool);
NodeConstruct ==
    /\ PoolRunning
    /\ pool.live
    /\ blocks = {}
    /\ palloc.sizes = {}
    /\ LET st == _make_root_node_pool(_make_nil_node_pool(PoolCalls))
       IN  /\ err' \in Outcomes(st)
           /\ pool' = st.p
           /\ palloc' = st.u
           /\ CommitOr(st.err,
                       _make_root_node(_make_nil_node(World, nil_), root_))
    /\ op' = "construct"
    /\ arg' = 0
    /\ ret' = 0
    /\ UNCHANGED <<kind, it, ref, aux, cont, peer>>

\* s.insert(v): a node is requested when the key is not stored
NodeInsert(v) ==
    /\ PoolRunning
    /\ Alive
    /\ pool.allocs < NodeMaxCalls
    /\ LET r == insert(World, v)
           st == IF r.ret[2] THEN _allocate_node_pool(PoolCalls, r.ret[1])
                 ELSE PoolCalls
       IN  /\ err' \in Outcomes(st)
           /\ pool' = st.p
           /\ palloc' = st.u
           /\ CommitOr(st.err, r.w)
           /\ ret' = IF st.err = "none" THEN r.ret ELSE 0
           /\ ref' = IF st.err = "none" /\ r.ret[2] THEN ref \cup {v} ELSE ref
    /\ op' = "insert"
    /\ arg' = v
    /\ it' = NoIter
    /\ UNCHANGED <<kind, aux, cont, peer>>

\* it = s.find(k);
NodeFind(k) ==
    /\ PoolRunning
    /\ Alive
    /\ it' = find(mem, k)
    /\ ret' = find(mem, k)
    /\ op' = "find"
    /\ arg' = k
    /\ err' = "none"
    /\ UNCHANGED <<kind, mem, size_, blocks, count, ref, aux, pool, cont,
                   palloc, peer>>

\* s.erase(it), it being the iterator find returned
NodeErase ==
    /\ PoolRunning
    /\ Alive
    /\ it # NoIter
    /\ LET r == erase_iterator(World, it)
           st == IF r.err = "none" THEN _free_node_pool(PoolCalls, it)
                 ELSE PoolCalls
       IN  /\ err' = r.err
           /\ pool' = st.p
           /\ palloc' = st.u
           /\ Commit(r.w)
           /\ ref' = IF r.err = "none" THEN ref \ {mem[it].data} ELSE ref
    /\ op' = "erase"
    /\ arg' = it
    /\ ret' = 0
    /\ it' = NoIter
    /\ UNCHANGED <<kind, aux, cont, peer>>

\* s.clear();
NodeClear ==
    /\ PoolRunning
    /\ Alive
    /\ LET st == _destroy_helper_pool(PoolCalls, mem, mem[root_].left)
       IN  /\ pool' = st.p
           /\ palloc' = st.u
    /\ Commit(clear(World))
    /\ ref' = {}
    /\ op' = "clear"
    /\ arg' = 0
    /\ ret' = 0
    /\ err' = "none"
    /\ it' = NoIter
    /\ UNCHANGED <<kind, aux, cont, peer>>

NextNodePool ==
    \/ \E n \in 1..MaxChunks, d \in BOOLEAN : PoolConstruct(n, d)
    \/ NodeConstruct
    \/ \E v \in NodePayloads : NodeInsert(v)
    \/ \E k \in 1..NodeMaxKey : NodeFind(k)
    \/ NodeErase
    \/ NodeClear

SpecNodePool == InitNodePool /\ [][NextNodePool]_vars

\* ------------------------------------------- insertion and a failing allocator
\* failed allocations a run may contain
MaxFailures == 2

\* allocator_->allocate(sizeof(node_t)) when operator new[] throws:
\* test_allocator::allocate has counted the block before the throw
_allocate_node_throw(w) ==
    [w |-> [w EXCEPT !.count = @ + 1], err |-> "bad_alloc"]

\* variant of insert under a failing allocator that counts the element
\* before it requests the node
insert_throw_counted(w, v) ==
    LET existing == _search(w.mem, KeyOf(v))
    IN  IF existing # nil_
        THEN [w |-> w, ret |-> <<existing, FALSE>>, err |-> "none"]
        ELSE [w |-> _allocate_node_throw([w EXCEPT !.size_ = @ + 1]).w,
              ret |-> 0, err |-> "bad_alloc"]

\* insert(const T& value) when the allocator cannot produce a node: the
\* statements after x = _allocate_node() are not reached
insert_throw(w, v) ==
    LET existing == _search(w.mem, KeyOf(v))
    IN  IF existing # nil_
        THEN [w |-> w, ret |-> <<existing, FALSE>>, err |-> "none"]
        ELSE [w |-> _allocate_node_throw(w).w, ret |-> 0,
              err |-> _allocate_node_throw(w).err]

\* variant of operator[] that stores a default value under a key it found
operator_index_reset(w, key) ==
    LET existing == _search(w.mem, key)
    IN  IF existing # nil_
        THEN [w |-> [w EXCEPT !.mem[existing].data = <<key, 0>>],
              ret |-> existing]
        ELSE LET x  == key
                 w1 == _allocate_node(w, x)
                 w2 == [w1 EXCEPT !.mem[x].data = <<key, 0>>]
                 w3 == _insert(w2, x)
             IN  [w |-> w3, ret |-> x]

\* map::operator[](const Key& key): the node whose data.second is returned
operator_index(w, key) ==
    LET existing == _search(w.mem, key)
    IN  IF existing # nil_
        THEN [w |-> w, ret |-> existing]
        ELSE LET x  == key
                 w1 == _allocate_node(w, x)
                 w2 == [w1 EXCEPT !.mem[x].data = <<key, 0>>]
                 w3 == _insert(w2, x)
             IN  [w |-> w3, ret |-> x]

\* map::operator[] when the allocator cannot produce a node
operator_index_throw(w, key) ==
    LET existing == _search(w.mem, key)
    IN  IF existing # nil_
        THEN [w |-> w, ret |-> existing, err |-> "none"]
        ELSE [w |-> _allocate_node_throw(w).w, ret |-> 0,
              err |-> _allocate_node_throw(w).err]

\* insert(v) with an allocator whose next allocation fails
InsertOom(v) ==
    /\ Running
    /\ count < size_ + 2 + MaxFailures
    /\ LET r == insert_throw(World, v)
       IN  /\ Commit(r.w)
           /\ ret' = r.ret
           /\ err' = r.err
    /\ op' = "insert_oom"
    /\ arg' = v
    /\ it' = NoIter
    /\ UNCHANGED <<kind, ref, aux, pool, cont, palloc, peer>>

\* m[k]
Index(k) ==
    /\ Running
    /\ kind = "map"
    /\ LET r == operator_index(World, k)
       IN  /\ Commit(r.w)
           /\ ret' = r.ret
    /\ ref' = IF HasKey(ref, k) THEN ref ELSE ref \cup {<<k, 0>>}
    /\ op' = "index"
    /\ arg' = k
    /\ err' = "none"
    /\ it' = NoIter
    /\ UNCHANGED <<kind, aux, pool, cont, palloc, peer>>

\* m[k] with an allocator whose next allocation fails
IndexOom(k) ==
    /\ Running
    /\ kind = "map"
    /\ count < size_ + 2 + MaxFailures
    /\ LET r == operator_index_throw(World, k)
       IN  /\ Commit(r.w)
           /\ ret' = r.ret
           /\ err' = r.err
    /\ op' = "index_oom"
    /\ arg' = k
    /\ it' = NoIter
    /\ UNCHANGED <<kind, ref, aux, pool, cont, palloc, peer>>

NextOom ==
    \/ \E v \in Payloads(kind) : Insert(v)
    \/ \E v \in Payloads(kind) : InsertOom(v)
    \/ \E k \in KeysOfKind(kind) : Index(k)
    \/ \E k \in KeysOfKind(kind) : IndexOom(k)

SpecOom == Init /\ [][NextOom]_vars

\* insert, m[k], find and erase(iterator)
NextIndex ==
    \/ \E v \in Payloads(kind) : Insert(v)
    \/ \E k \in KeysOfKind(kind) : Index(k)
    \/ \E k \in KeysOfKind(kind) : Find(k)
    \/ Erase

SpecIndex == Init /\ [][NextIndex]_vars

\* ---------------------------------------------------- a set<int> of more keys
\* insert, find and erase(iterator) on a set whose keys are 1..HeightMaxKey
\* and 8 and 9
HeightMaxKey == 5

HeightKeys == (1..HeightMaxKey) \cup {8, 9}

\* depth no path of a tree over these keys exceeds
HeightFuel == HeightMaxKey + 3

\* set(allocator * alloc), with room in the heap for every key of HeightKeys
InitHeight ==
    /\ kind = "set"
    /\ LET w0 == [mem |-> [a \in {nil_, root_} \cup HeightKeys |-> Junk],
                  size_ |-> 0, blocks |-> {}, count |-> 0]
           w1 == _make_nil_node(w0, nil_)
           w2 == _make_root_node(w1, root_)
       IN  /\ mem = w2.mem
           /\ size_ = w2.size_
           /\ blocks = w2.blocks
           /\ count = w2.count
    /\ it = NoIter
    /\ op = "init"
    /\ arg = 0
    /\ ret = 0
    /\ err = "none"
    /\ ref = {}
    /\ ObjsIdle

NextHeight ==
    \/ \E v \in HeightKeys : Insert(v)
    \/ \E k \in HeightKeys : Find(k)
    \/ Erase

SpecHeight == InitHeight /\ [][NextHeight]_vars

\* ------------------------------------------- a set or map of still more keys
\* insert in any order, erase(find(k)) and clear on a set<int> or a
\* map<int,int> whose keys are 1..FixMaxKey: trees of up to FixMaxKey nodes,
\* among them trees in which a fix-up loop makes more than one pass.  The
\* mapped value of every pair is 0: no loop reads it.
FixMaxKey == 10

FixKeys == 1..FixMaxKey

FixPayloads(k) == IF k = "set" THEN FixKeys ELSE FixKeys \X {0}

\* set(allocator * alloc) / map(allocator * alloc), with room in the heap
\* for every key of FixKeys
InitFixUp ==
    /\ kind \in {"set", "map"}
    /\ LET w0 == [mem |-> [a \in {nil_, root_} \cup FixKeys |-> Junk],
                  size_ |-> 0, blocks |-> {}, count |-> 0]
           w1 == _make_nil_node(w0, nil_)
           w2 == _make_root_node(w1, root_)
       IN  /\ mem = w2.mem
           /\ size_ = w2.size_
           /\ blocks = w2.blocks
           /\ count = w2.count
    /\ it = NoIter
    /\ op = "init"
    /\ arg = 0
    /\ ret = 0
    /\ err = "none"
    /\ ref = {}
    /\ ObjsIdle

\* s.insert(v), for any payload in any order; the caller keeps neither the
\* argument nor the pair returned
FixInsert(v) ==
    /\ Running
    /\ Commit(insert(World, v).w)
    /\ ref' = IF HasKey(ref, KeyOf(v)) THEN ref ELSE ref \cup {v}
    /\ op' = "insert"
    /\ arg' = 0
    /\ ret' = 0
    /\ err' = "none"
    /\ it' = NoIter
    /\ UNCHANGED <<kind, aux, pool, cont, palloc, peer>>

\* s.erase(s.find(k)), k being a stored key; the caller keeps no iterator
FixErase(k) ==
    /\ Running
    /\ find(mem, k) # end(mem)
    /\ LET r == erase_iterator(World, find(mem, k))
       IN  /\ Commit(r.w)
           /\ err' = r.err
    /\ ref' = {d \in ref : KeyOf(d) # k}
    /\ op' = "erase"
    /\ arg' = 0
    /\ ret' = 0
    /\ it' = NoIter
    /\ UNCHANGED <<kind, aux, pool, cont, palloc, peer>>

NextFixUp ==
    \/ \E v \in FixPayloads(kind) : FixInsert(v)
    \/ \E k \in FixKeys : FixErase(k)
    \/ Clear

SpecFixUp == InitFixUp /\ [][NextFixUp]_vars

\* ------------------------------------------------------------------- list<T>
\* include/nostd/list.h.  The nodes of the list live in their own heap; the
\* code compares node addresses only for equality, so the allocator hands out
\* the least address that is free.  nullptr is NULLPTR.
ListMaxLen == 3
ListMaxVal == 2

ListAddr == 1..ListMaxLen

ListVals == 1..ListMaxVal

ListJunk == [prev |-> "junk", next |-> "junk", data |-> "junk"]

\* list(allocator * alloc)
list(alloc) ==
    [live |-> TRUE, type |-> "list", head_ |-> NULLPTR, tail_ |-> NULLPTR,
     size_ |-> 0, allocator_ |-> alloc,
     nodes |-> [a \in ListAddr |-> ListJunk], blocks |-> {}]

\* the address allocator_->allocate(sizeof(node_t)) returns
FreshNode(l) ==
    CHOOSE a \in DOMAIN l.nodes \ l.blocks :
        \A b \in DOMAIN l.nodes \ l.blocks : a <= b

\* _allocate_node()
list_allocate_node(l, node) == [l EXCEPT !.blocks = @ \cup {node}]

\* _free_node(node): what the released block holds is indeterminate
list_free_node(l, node) ==
    [l EXCEPT !.blocks = @ \ {node}, !.nodes[node] = ListJunk]

\* begin() and end()
list_begin(l) == l.head_

list_end == NULLPTR

\* iterator::operator++ on an iterator that is not end()
list_next(l, node) == l.nodes[node].next

\* front() and back(); they throw on an empty list
front(l) == IF l.head_ = NULLPTR THEN "range_error" ELSE l.nodes[l.head_].data

back(l) == IF l.tail_ = NULLPTR THEN "range_error" ELSE l.nodes[l.tail_].data

\* push_front(const T& data)
push_front(l, data) ==
    LET node == FreshNode(l)
        s1(h) == [h EXCEPT !.nodes[node] =
                     [data |-> data, prev |-> NULLPTR, next |-> h.head_]]
        \* if (node->next) node->next->prev = node;
        s2(h) == IF h.nodes[node].next # NULLPTR
                 THEN [h EXCEPT !.nodes[h.nodes[node].next].prev = node]
                 ELSE h
        s3(h) == [h EXCEPT !.head_ = node]
        \* if (tail_ == nullptr) tail_ = node;
        s4(h) == IF h.tail_ = NULLPTR THEN [h EXCEPT !.tail_ = node] ELSE h
        s5(h) == [h EXCEPT !.size_ = @ + 1]
    IN  s5(s4(s3(s2(s1(list_allocate_node(l, node))))))

\* push_back(const T& data)
push_back(l, data) ==
    LET node == FreshNode(l)
        s1(h) == [h EXCEPT !.nodes[node] =
                     [data |-> data, prev |-> h.tail_, next |-> NULLPTR]]
        \* if (node->prev) node->prev->next = node;
        s2(h) == IF h.nodes[node].prev # NULLPTR
                 THEN [h EXCEPT !.nodes[h.nodes[node].prev].next = node]
                 ELSE h
        \* if (head_ == nullptr) head_ = node;
        s3(h) == IF h.head_ = NULLPTR THEN [h EXCEPT !.head_ = node] ELSE h
        s4(h) == [h EXCEPT !.tail_ = node]
        s5(h) == [h EXCEPT !.size_ = @ + 1]
    IN  s5(s4(s3(s2(s1(list_allocate_node(l, node))))))

\* pop_front()
pop_front(l) ==
    LET node == l.head_
        s1(h) == [h EXCEPT !.head_ = h.nodes[node].next]
        \* if (head_) head_->prev = nullptr;
        s2(h) == IF h.head_ # NULLPTR
                 THEN [h EXCEPT !.nodes[h.head_].prev = NULLPTR]
                 ELSE h
        \* if (tail_ == node) tail_ = nullptr;
        s3(h) == IF h.tail_ = node THEN [h EXCEPT !.tail_ = NULLPTR] ELSE h
        s4(h) == [h EXCEPT !.size_ = @ - 1]
    IN  IF node = NULLPTR THEN l
        ELSE list_free_node(s4(s3(s2(s1(l)))), node)

\* pop_back()
pop_back(l) ==
    LET node == l.tail_
        s1(h) == [h EXCEPT !.tail_ = h.nodes[node].prev]
        \* if (tail_) tail_->next = nullptr;
        s2(h) == IF h.tail_ # NULLPTR
                 THEN [h EXCEPT !.nodes[h.tail_].next = NULLPTR]
                 ELSE h
        \* if (head_ == node) head_ = nullptr;
        s3(h) == IF h.head_ = node THEN [h EXCEPT !.head_ = NULLPTR] ELSE h
        s4(h) == [h EXCEPT !.size_ = @ - 1]
    IN  IF node = NULLPTR THEN l
        ELSE list_free_node(s4(s3(s2(s1(l)))), node)

\* variant of insert(iterator pos, const T& data) that leaves head_ alone
list_insert_keep_head(l, pos, data) ==
    LET node == FreshNode(l)
        s1(h) == [h EXCEPT !.nodes[node] =
                     [data |-> data, prev |-> h.nodes[pos].prev,
                      next |-> pos]]
        s2(h) == IF h.nodes[pos].prev # NULLPTR
                 THEN [h EXCEPT !.nodes[h.nodes[pos].prev].next = node]
                 ELSE h
        s3(h) == [h EXCEPT !.nodes[pos].prev = node]
        s5(h) == [h EXCEPT !.size_ = @ + 1]
    IN  IF pos = NULLPTR THEN push_back(l, data)
        ELSE s5(s3(s2(s1(list_allocate_node(l, node)))))

\* insert(iterator pos, const T& data)
list_insert(l, pos, data) ==
    LET node == FreshNode(l)
        s1(h) == [h EXCEPT !.nodes[node] =
                     [data |-> data, prev |-> h.nodes[pos].prev,
                      next |-> pos]]
        \* if (pos.node_->prev != nullptr) pos.node_->prev->next = node;
        s2(h) == IF h.nodes[pos].prev # NULLPTR
                 THEN [h EXCEPT !.nodes[h.nodes[pos].prev].next = node]
                 ELSE h
        s3(h) == [h EXCEPT !.nodes[pos].prev = node]
        \* if (pos.node_ == head_) head_ = node;
        s4(h) == IF pos = h.head_ THEN [h EXCEPT !.head_ = node] ELSE h
        s5(h) == [h EXCEPT !.size_ = @ + 1]
    IN  IF pos = NULLPTR THEN push_back(l, data)
        ELSE s5(s4(s3(s2(s1(list_allocate_node(l, node))))))

\* erase(iterator pos): the list afterwards and the iterator returned
list_erase(l, pos) ==
    LET node == pos
        \* if (node->prev) node->prev->next = node->next;
        s1(h) == IF h.nodes[node].prev # NULLPTR
                 THEN [h EXCEPT !.nodes[h.nodes[node].prev].next =
                                     h.nodes[node].next]
                 ELSE h
        \* if (node->next) node->next->prev = node->prev;
        s2(h) == IF h.nodes[node].next # NULLPTR
                 THEN [h EXCEPT !.nodes[h.nodes[node].next].prev =
                                     h.nodes[node].prev]
                 ELSE h
        \* if (head_ == node) head_ = node->next;
        s3(h) == IF h.head_ = node
                 THEN [h EXCEPT !.head_ = h.nodes[node].next] ELSE h
        \* if (tail_ == node) tail_ = node->prev;
        s4(h) == IF h.tail_ = node
                 THEN [h EXCEPT !.tail_ = h.nodes[node].prev] ELSE h
        s5(h) == [list_free_node(h, node) EXCEPT !.size_ = @ - 1]
    IN  IF node = NULLPTR THEN [l |-> l, ret |-> NULLPTR]
        ELSE [l |-> s5(s4(s3(s2(s1(l))))), ret |-> l.nodes[node].next]

\* the data members of the list l, and beside them the ghost sequence seq
ListMembers(l, seq) ==
    [live |-> l.live, type |-> l.type, head_ |-> l.head_, tail_ |-> l.tail_,
     size_ |-> l.size_, allocator_ |-> l.allocator_, seq |-> seq]

\* the list of members m over the nodes of h
ListOver(m, h) ==
    [live |-> m.live, type |-> m.type, head_ |-> m.head_, tail_ |-> m.tail_,
     size_ |-> m.size_, allocator_ |-> m.allocator_, nodes |-> h.nodes,
     blocks |-> h.blocks]

\* data_match_predicate holds a reference, const T& data_.  d = [at, value]
\* is the object it refers to: the data of the node at, or for at = nullptr
\* an object outside the list; value is what the object held at the call.
Outside(value) == [at |-> NULLPTR, value |-> value]

Element(l, node) == [at |-> node, value |-> l.nodes[node].data]

\* the node data_ refers to has been released
Released(l, d) == (d.at # NULLPTR) /\ (d.at \notin l.blocks)

RECURSIVE remove_if(_, _, _)
\* the while loop of remove_if(predicate), the predicate being
\* data_match_predicate(data); st = [l, uaf]: the list, and whether the
\* predicate has read data_ after its node was released.  The released block
\* is taken to hold what it held.
remove_if(st, d, node) ==
    LET read(s) == [s EXCEPT !.uaf = @ \/ Released(s.l, d)]
        erased(s, r) == remove_if([s EXCEPT !.l = r.l], d, r.ret)
    IN  IF node = NULLPTR THEN st
        ELSE IF d.value = st.l.nodes[node].data
             THEN erased(read(st), list_erase(st.l, node))
             ELSE remove_if(read(st), d, st.l.nodes[node].next)

\* remove(const T& data)
remove(l, d) == remove_if([l |-> l, uaf |-> FALSE], d, l.head_)

RECURSIVE list_clear(_)
\* clear(): while (size_ != 0U) { T data(utility::move(front()));
\* pop_front(); }  front() throws on a list without head_, and out of a
\* noexcept function that is std::terminate
list_clear(l) ==
    IF l.size_ = 0 THEN [l |-> l, err |-> "none"]
    ELSE IF l.head_ = NULLPTR THEN [l |-> l, err |-> "terminate"]
    ELSE list_clear(pop_front(l))

RECURSIVE _copy_nodes(_, _)
\* while (other_node != nullptr) { push_back(other_node->data);
\*                                 other_node = other_node->next; }
_copy_nodes(l, other_node) ==
    IF other_node = NULLPTR THEN l
    ELSE _copy_nodes(push_back(l, l.nodes[other_node].data),
                     l.nodes[other_node].next)

\* _set_by_copy(other), other being the members of another list
list_set_by_copy(l, other) ==
    LET reset(c) == [c EXCEPT !.head_ = NULLPTR, !.tail_ = NULLPTR,
                              !.allocator_ = other.allocator_, !.size_ = 0]
        copied(r) == IF r.err # "none" THEN r
                     ELSE [l |-> _copy_nodes(reset(r.l), other.head_),
                           err |-> "none"]
    IN  copied(list_clear(l))

\* _set_by_move(other): this list, the members other is left with
list_set_by_move(l, other) ==
    LET moved(r) ==
            IF r.err # "none" THEN [l |-> r.l, o |-> other, err |-> r.err]
            ELSE [l |-> [r.l EXCEPT !.head_ = other.head_,
                                    !.tail_ = other.tail_,
                                    !.allocator_ = other.allocator_,
                                    !.size_ = other.size_],
                  o |-> [other EXCEPT !.head_ = NULLPTR, !.tail_ = NULLPTR,
                                      !.allocator_ = NoAllocator,
                                      !.size_ = 0],
                  err |-> "none"]
    IN  moved(list_clear(l))

\* swap(other)
list_swap(l, other) ==
    [l |-> [l EXCEPT !.head_ = other.head_, !.tail_ = other.tail_,
                     !.size_ = other.size_,
                     !.allocator_ = other.allocator_],
     o |-> [other EXCEPT !.head_ = l.head_, !.tail_ = l.tail_,
                         !.size_ = l.size_, !.allocator_ = l.allocator_]]

\* ------------------------------------------------------------- list actions
RECURSIVE Advance(_, _, _)
\* begin() incremented i times
Advance(l, node, i) ==
    IF i = 0 THEN node ELSE Advance(l, list_next(l, node), i - 1)

\* the reference sequence with v put before its element i + 1
PutBefore(s, i, v) == SubSeq(s, 1, i) \o <<v>> \o SubSeq(s, i + 1, Len(s))

\* the reference sequence without its element i + 1
TakeOut(s, i) == SubSeq(s, 1, i) \o SubSeq(s, i + 2, Len(s))

RECURSIVE Without(_, _)
\* the reference sequence without the elements equal to v
Without(s, v) ==
    IF s = <<>> THEN <<>>
    ELSE IF Head(s) = v THEN Without(Tail(s), v)
         ELSE <<Head(s)>> \o Without(Tail(s), v)

IsList == cont.live /\ cont.type = "list"

\* the two lists of a call: "cont" names the list of cont, "peer" the
\* second one
Lists == {"cont", "peer"}

\* the list o as the object of a member function
ListThis(o) == IF o = "cont" THEN cont ELSE ListOver(peer, cont)

\* the members of the list that is not o
ListOther(o) == IF o = "cont" THEN peer ELSE ListMembers(cont, ref)

\* the call left l, holding seq, for the list o and the members other for
\* the other one
ListPut(o, l, seq, other) ==
    IF o = "cont"
    THEN /\ cont' = l
         /\ ref' = seq
         /\ peer' = other
    ELSE /\ cont' = ListOver(other, l)
         /\ ref' = other.seq
         /\ peer' = ListMembers(l, seq)

\* a call of cont that allocates a node: allocator_->allocate(sizeof(node_t))
\* through the nullptr a moved-from list holds is undefined
ListAllocated(l, seq) ==
    IF cont.allocator_ = NoAllocator
    THEN /\ err' = "undefined"
         /\ UNCHANGED <<cont, ref>>
    ELSE /\ err' = "none"
         /\ cont' = l
         /\ ref' = seq

\* the allocator has a node left
ListRoom == Cardinality(cont.blocks) < ListMaxLen

ListConstruct ==
    /\ Running
    /\ ~cont.live
    /\ cont' = list("alloc")
    /\ ref' = <<>>
    /\ op' = "list"
    /\ arg' = 0
    /\ ret' = 0
    /\ err' = "none"
    /\ UNCHANGED <<kind, mem, size_, blocks, count, it, aux, pool,
                 palloc, peer>>

ListPushFront(v) ==
    /\ Running
    /\ IsList
    /\ ListRoom
    /\ ListAllocated(push_front(cont, v), <<v>> \o ref)
    /\ op' = "push_front"
    /\ arg' = v
    /\ ret' = 0
    /\ UNCHANGED <<kind, mem, size_, blocks, count, it, aux, pool,
                 palloc, peer>>

ListPushBack(v) ==
    /\ Running
    /\ IsList
    /\ ListRoom
    /\ ListAllocated(push_back(cont, v), ref \o <<v>>)
    /\ op' = "push_back"
    /\ arg' = v
    /\ ret' = 0
    /\ UNCHANGED <<kind, mem, size_, blocks, count, it, aux, pool,
                 palloc, peer>>

ListPopFront ==
    /\ Running
    /\ IsList
    /\ cont' = pop_front(cont)
    /\ ref' = IF ref = <<>> THEN ref ELSE Tail(ref)
    /\ op' = "pop_front"
    /\ arg' = 0
    /\ ret' = 0
    /\ err' = "none"
    /\ UNCHANGED <<kind, mem, size_, blocks, count, it, aux, pool,
                 palloc, peer>>

ListPopBack ==
    /\ Running
    /\ IsList
    /\ cont' = pop_back(cont)
    /\ ref' = IF ref = <<>> THEN ref ELSE SubSeq(ref, 1, Len(ref) - 1)
    /\ op' = "pop_back"
    /\ arg' = 0
    /\ ret' = 0
    /\ err' = "none"
    /\ UNCHANGED <<kind, mem, size_, blocks, count, it, aux, pool,
                 palloc, peer>>

\* insert(pos, v), pos being begin() incremented i times
ListInsert(i, v) ==
    /\ Running
    /\ IsList
    /\ ListRoom
    /\ i <= Len(ref)
    /\ ListAllocated(list_insert(cont, Advance(cont, list_begin(cont), i), v),
                     PutBefore(ref, i, v))
    /\ op' = "list_insert"
    /\ arg' = <<i, v>>
    /\ ret' = 0
    /\ UNCHANGED <<kind, mem, size_, blocks, count, it, aux, pool,
                 palloc, peer>>

\* ret = erase(pos), pos being begin() incremented i times
ListErase(i) ==
    /\ Running
    /\ IsList
    /\ i <= Len(ref)
    /\ LET r == list_erase(cont, Advance(cont, list_begin(cont), i))
       IN  /\ cont' = r.l
           /\ ret' = r.ret
    /\ ref' = TakeOut(ref, i)
    /\ op' = "list_erase"
    /\ arg' = i
    /\ err' = "none"
    /\ UNCHANGED <<kind, mem, size_, blocks, count, it, aux, pool,
                 palloc, peer>>

\* remove(v), v being an object outside the list
ListRemove(v) ==
    /\ Running
    /\ IsList
    /\ cont' = remove(cont, Outside(v)).l
    /\ ref' = Without(ref, v)
    /\ op' = "remove"
    /\ arg' = v
    /\ ret' = 0
    /\ err' = "none"
    /\ UNCHANGED <<kind, mem, size_, blocks, count, it, aux, pool,
                 palloc, peer>>

\* remove(*pos), pos being begin() incremented i times: the predicate goes on
\* reading the element after its node is released
ListRemoveElement(i) ==
    /\ Running
    /\ IsList
    /\ i < Len(ref)
    /\ LET st == remove(cont, Element(cont, Advance(cont, list_begin(cont), i)))
       IN  /\ cont' = st.l
           /\ err' \in IF st.uaf THEN {"none", "undefined"} ELSE {"none"}
    /\ ref' = Without(ref, ref[i + 1])
    /\ op' = "remove_element"
    /\ arg' = i
    /\ ret' = 0
    /\ UNCHANGED <<kind, mem, size_, blocks, count, it, aux, pool,
                 palloc, peer>>

ListClear ==
    /\ Running
    /\ IsList
    /\ LET r == list_clear(cont)
       IN  /\ cont' = r.l
           /\ err' = r.err
    /\ ref' = <<>>
    /\ op' = "list_clear"
    /\ arg' = 0
    /\ ret' = 0
    /\ UNCHANGED <<kind, mem, size_, blocks, count, it, aux, pool,
                 palloc, peer>>

\* list<T> other(alloc);  a second list, declared after the first
ListPeer ==
    /\ Running
    /\ IsList
    /\ ~peer.live
    /\ peer' = ListMembers(list("alloc"), <<>>)
    /\ op' = "list_peer"
    /\ arg' = 0
    /\ ret' = 0
    /\ err' = "none"
    /\ UNCHANGED <<kind, mem, size_, blocks, count, it, ref, aux, pool,
                 palloc, cont>>

\* list<T> other(cont);  the initialisers leave allocator_ = nullptr, then
\* _set_by_copy
ListCopyConstruct ==
    /\ Running
    /\ IsList
    /\ ~peer.live
    /\ Cardinality(cont.blocks) + cont.size_ <= ListMaxLen
    /\ LET fresh == ListMembers(list(NoAllocator), <<>>)
           r == list_set_by_copy(ListOver(fresh, cont),
                                 ListMembers(cont, ref))
       IN  /\ ListPut("peer", r.l, ref, ListMembers(cont, ref))
           /\ err' = r.err
    /\ op' = "list_copy_construct"
    /\ arg' = 0
    /\ ret' = 0
    /\ UNCHANGED <<kind, mem, size_, blocks, count, it, aux, pool, palloc>>

\* list<T> other(utility::move(cont));
ListMoveConstruct ==
    /\ Running
    /\ IsList
    /\ ~peer.live
    /\ LET fresh == ListMembers(list(NoAllocator), <<>>)
           r == list_set_by_move(ListOver(fresh, cont),
                                 ListMembers(cont, <<>>))
       IN  /\ ListPut("peer", r.l, ref, r.o)
           /\ err' = r.err
    /\ op' = "list_move_construct"
    /\ arg' = 0
    /\ ret' = 0
    /\ UNCHANGED <<kind, mem, size_, blocks, count, it, aux, pool, palloc>>

\* o = other;  o being cont or the second list
ListCopyAssign(o) ==
    /\ Running
    /\ IsList
    /\ peer.live
    /\ Cardinality(cont.blocks) - ListThis(o).size_ + ListOther(o).size_
           <= ListMaxLen
    /\ LET r == list_set_by_copy(ListThis(o), ListOther(o))
       IN  /\ ListPut(o, r.l, ListOther(o).seq, ListOther(o))
           /\ err' = r.err
    /\ op' = "list_copy_assign"
    /\ arg' = o
    /\ ret' = 0
    /\ UNCHANGED <<kind, mem, size_, blocks, count, it, aux, pool, palloc>>

\* o = utility::move(other);
ListMoveAssign(o) ==
    /\ Running
    /\ IsList
    /\ peer.live
    /\ LET r == list_set_by_move(ListThis(o), ListOther(o))
       IN  /\ ListPut(o, r.l, ListOther(o).seq, [r.o EXCEPT !.seq = <<>>])
           /\ err' = r.err
    /\ op' = "list_move_assign"
    /\ arg' = o
    /\ ret' = 0
    /\ UNCHANGED <<kind, mem, size_, blocks, count, it, aux, pool, palloc>>

\* cont.swap(other);
ListSwap ==
    /\ Running
    /\ IsList
    /\ peer.live
    /\ LET r == list_swap(cont, peer)
       IN  ListPut("cont", r.l, peer.seq, [r.o EXCEPT !.seq = ref])
    /\ op' = "list_swap"
    /\ arg' = 0
    /\ ret' = 0
    /\ err' = "none"
    /\ UNCHANGED <<kind, mem, size_, blocks, count, it, aux, pool, palloc>>

\* ~list() of the second list, which goes out of scope first
ListPeerDestroy ==
    /\ Running
    /\ IsList
    /\ peer.live
    /\ LET r == list_clear(ListOver(peer, cont))
       IN  /\ cont' = ListOver(ListMembers(cont, ref), r.l)
           /\ err' = r.err
    /\ peer' = NoContainer
    /\ op' = "list_peer_destroy"
    /\ arg' = 0
    /\ ret' = 0
    /\ UNCHANGED <<kind, mem, size_, blocks, count, it, ref, aux, pool,
                 palloc>>

\* ~list(): _clean()
ListDestroy ==
    /\ Running
    /\ IsList
    /\ ~peer.live
    /\ cont' = NoContainer
    /\ err' = list_clear(cont).err
    /\ ref' = <<>>
    /\ op' = "list_destroy"
    /\ arg' = 0
    /\ ret' = 0
    /\ UNCHANGED <<kind, mem, size_, blocks, count, it, aux, pool,
                 palloc, peer>>

NextList ==
    \/ ListConstruct
    \/ \E v \in ListVals : ListPushFront(v)
    \/ \E v \in ListVals : ListPushBack(v)
    \/ ListPopFront
    \/ ListPopBack
    \/ \E i \in 0..ListMaxLen, v \in ListVals : ListInsert(i, v)
    \/ \E i \in 0..ListMaxLen : ListErase(i)
    \/ \E v \in ListVals : ListRemove(v)
    \/ \E i \in 0..ListMaxLen : ListRemoveElement(i)
    \/ ListClear
    \/ ListPeer
    \/ ListCopyConstruct
    \/ ListMoveConstruct
    \/ \E o \in Lists : ListCopyAssign(o)
    \/ \E o \in Lists : ListMoveAssign(o)
    \/ ListSwap
    \/ ListPeerDestroy
    \/ ListDestroy

SpecList == Init /\ [][NextList]_vars

\* ------------------------------------------------------------------ stack<T>
\* include/nostd/stack.h: a singly linked list of nodes, head_ on top
StackMaxLen == 3

StackAddr == 1..StackMaxLen

StackJunk == [next |-> "junk", data |-> "junk"]

\* stack(allocator * alloc)
stack(alloc) ==
    [live |-> TRUE, type |-> "stack", head_ |-> NULLPTR, size_ |-> 0,
     allocator_ |-> alloc,
     nodes |-> [a \in StackAddr |-> StackJunk], blocks |-> {}]

\* _free_node(node): what the released block holds is indeterminate
stack_free_node(s, node) ==
    [s EXCEPT !.blocks = @ \ {node}, !.nodes[node] = StackJunk]

\* top(): the exception it throws, if any, and the element it returns
top(s) ==
    IF s.head_ = NULLPTR THEN [err |-> "range_error", data |-> 0]
    ELSE [err |-> "none", data |-> s.nodes[s.head_].data]

\* push(const T& data)
stack_push(s, data) ==
    LET node == FreshNode(s)
        s1(h) == [h EXCEPT !.blocks = @ \cup {node}]
        s2(h) == [h EXCEPT !.nodes[node] = [data |-> data, next |-> h.head_]]
        s3(h) == [h EXCEPT !.head_ = node]
        s4(h) == [h EXCEPT !.size_ = @ + 1]
    IN  s4(s3(s2(s1(s))))

\* variant of pop() that does not count the element it removes
stack_pop_keep_size(s) ==
    LET node == s.head_
        s1(h) == [h EXCEPT !.head_ = h.nodes[node].next]
    IN  IF node = NULLPTR THEN s
        ELSE stack_free_node(s1(s), node)

\* pop()
stack_pop(s) ==
    LET node == s.head_
        s1(h) == [h EXCEPT !.head_ = h.nodes[node].next]
        s2(h) == [h EXCEPT !.size_ = @ - 1]
    IN  IF node = NULLPTR THEN s
        ELSE stack_free_node(s2(s1(s)), node)

RECURSIVE stack_clear(_)
\* clear(): while (size_ != 0U) { T data(utility::move(top())); pop(); }
\* top() throws on a stack without head_, and out of a noexcept function
\* that is std::terminate
stack_clear(s) ==
    IF s.size_ = 0 THEN [s |-> s, err |-> "none"]
    ELSE IF top(s).err # "none" THEN [s |-> s, err |-> "terminate"]
    ELSE stack_clear(stack_pop(s))

\* the data members of the stack s, and beside them the ghost sequence seq
StackMembers(s, seq) ==
    [live |-> s.live, type |-> s.type, head_ |-> s.head_, size_ |-> s.size_,
     allocator_ |-> s.allocator_, seq |-> seq]

\* the stack of members m over the nodes of h
StackOver(m, h) ==
    [live |-> m.live, type |-> m.type, head_ |-> m.head_, size_ |-> m.size_,
     allocator_ |-> m.allocator_, nodes |-> h.nodes, blocks |-> h.blocks]

\* _set_by_move(other): this stack, the members other is left with
stack_set_by_move(s, other) ==
    LET moved(r) ==
            IF r.err # "none" THEN [s |-> r.s, o |-> other, err |-> r.err]
            ELSE [s |-> [r.s EXCEPT !.head_ = other.head_,
                                    !.allocator_ = other.allocator_,
                                    !.size_ = other.size_],
                  o |-> [other EXCEPT !.head_ = NULLPTR,
                                      !.allocator_ = NoAllocator,
                                      !.size_ = 0],
                  err |-> "none"]
    IN  moved(stack_clear(s))

\* swap(other)
stack_swap(s, other) ==
    [s |-> [s EXCEPT !.head_ = other.head_,
                     !.allocator_ = other.allocator_,
                     !.size_ = other.size_],
     o |-> [other EXCEPT !.head_ = s.head_, !.allocator_ = s.allocator_,
                         !.size_ = s.size_]]

IsStack == cont.live /\ cont.type = "stack"

\* the two stacks of a call: "cont" names the stack of cont, "peer" the
\* second one
Stacks == {"cont", "peer"}

\* the stack o as the object of a member function
StackThis(o) == IF o = "cont" THEN cont ELSE StackOver(peer, cont)

\* the members of the stack that is not o
StackOther(o) == IF o = "cont" THEN peer ELSE StackMembers(cont, ref)

\* the call left s, holding seq, for the stack o and the members other for
\* the other one
StackPut(o, s, seq, other) ==
    IF o = "cont"
    THEN /\ cont' = s
         /\ ref' = seq
         /\ peer' = other
    ELSE /\ cont' = StackOver(other, s)
         /\ ref' = other.seq
         /\ peer' = StackMembers(s, seq)

StackConstruct ==
    /\ Running
    /\ ~cont.live
    /\ cont' = stack("alloc")
    /\ ref' = <<>>
    /\ op' = "stack"
    /\ arg' = 0
    /\ ret' = 0
    /\ err' = "none"
    /\ UNCHANGED <<kind, mem, size_, blocks, count, it, aux, pool,
                 palloc, peer>>

\* push(v); allocator_->allocate(sizeof(node_t)) through the nullptr a
\* moved-from stack holds is undefined
StackPush(v) ==
    /\ Running
    /\ IsStack
    /\ Cardinality(cont.blocks) < StackMaxLen
    /\ IF cont.allocator_ = NoAllocator
       THEN /\ err' = "undefined"
            /\ UNCHANGED <<cont, ref>>
       ELSE /\ err' = "none"
            /\ cont' = stack_push(cont, v)
            /\ ref' = <<v>> \o ref
    /\ op' = "push"
    /\ arg' = v
    /\ ret' = 0
    /\ UNCHANGED <<kind, mem, size_, blocks, count, it, aux, pool,
                 palloc, peer>>

StackPop ==
    /\ Running
    /\ IsStack
    /\ cont' = stack_pop(cont)
    /\ ref' = IF ref = <<>> THEN ref ELSE Tail(ref)
    /\ op' = "pop"
    /\ arg' = 0
    /\ ret' = 0
    /\ err' = "none"
    /\ UNCHANGED <<kind, mem, size_, blocks, count, it, aux, pool,
                 palloc, peer>>

StackClear ==
    /\ Running
    /\ IsStack
    /\ LET r == stack_clear(cont)
       IN  /\ cont' = r.s
           /\ err' = r.err
    /\ ref' = <<>>
    /\ op' = "stack_clear"
    /\ arg' = 0
    /\ ret' = 0
    /\ UNCHANGED <<kind, mem, size_, blocks, count, it, aux, pool,
                 palloc, peer>>

\* stack<T> other(alloc);  a second stack, declared after the first
StackPeer ==
    /\ Running
    /\ IsStack
    /\ ~peer.live
    /\ peer' = StackMembers(stack("alloc"), <<>>)
    /\ op' = "stack_peer"
    /\ arg' = 0
    /\ ret' = 0
    /\ err' = "none"
    /\ UNCHANGED <<kind, mem, size_, blocks, count, it, ref, aux, pool,
                 palloc, cont>>

\* stack<T> other(utility::move(cont));  the initialisers leave
\* allocator_ = nullptr, then _set_by_move
StackMoveConstruct ==
    /\ Running
    /\ IsStack
    /\ ~peer.live
    /\ LET fresh == StackMembers(stack(NoAllocator), <<>>)
           r == stack_set_by_move(StackOver(fresh, cont),
                                  StackMembers(cont, <<>>))
       IN  /\ StackPut("peer", r.s, ref, r.o)
           /\ err' = r.err
    /\ op' = "stack_move_construct"
    /\ arg' = 0
    /\ ret' = 0
    /\ UNCHANGED <<kind, mem, size_, blocks, count, it, aux, pool, palloc>>

\* o = utility::move(other);  o being cont or the second stack
StackMoveAssign(o) ==
    /\ Running
    /\ IsStack
    /\ peer.live
    /\ LET r == stack_set_by_move(StackThis(o), StackOther(o))
       IN  /\ StackPut(o, r.s, StackOther(o).seq, [r.o EXCEPT !.seq = <<>>])
           /\ err' = r.err
    /\ op' = "stack_move_assign"
    /\ arg' = o
    /\ ret' = 0
    /\ UNCHANGED <<kind, mem, size_, blocks, count, it, aux, pool, palloc>>

\* cont.swap(other);
StackSwap ==
    /\ Running
    /\ IsStack
    /\ peer.live
    /\ LET r == stack_swap(cont, peer)
       IN  StackPut("cont", r.s, peer.seq, [r.o EXCEPT !.seq = ref])
    /\ op' = "stack_swap"
    /\ arg' = 0
    /\ ret' = 0
    /\ err' = "none"
    /\ UNCHANGED <<kind, mem, size_, blocks, count, it, aux, pool, palloc>>

\* ~stack() of the second stack, which goes out of scope first
StackPeerDestroy ==
    /\ Running
    /\ IsStack
    /\ peer.live
    /\ LET r == stack_clear(StackOver(peer, cont))
       IN  /\ cont' = StackOver(StackMembers(cont, ref), r.s)
           /\ err' = r.err
    /\ peer' = NoContainer
    /\ op' = "stack_peer_destroy"
    /\ arg' = 0
    /\ ret' = 0
    /\ UNCHANGED <<kind, mem, size_, blocks, count, it, ref, aux, pool,
                 palloc>>

\* ~stack(): _clean()
StackDestroy ==
    /\ Running
    /\ IsStack
    /\ ~peer.live
    /\ cont' = NoContainer
    /\ err' = stack_clear(cont).err
    /\ ref' = <<>>
    /\ op' = "stack_destroy"
    /\ arg' = 0
    /\ ret' = 0
    /\ UNCHANGED <<kind, mem, size_, blocks, count, it, aux, pool,
                 palloc, peer>>

NextStack ==
    \/ StackConstruct
    \/ \E v \in ListVals : StackPush(v)
    \/ StackPop
    \/ StackClear
    \/ StackPeer
    \/ StackMoveConstruct
    \/ \E o \in Stacks : StackMoveAssign(o)
    \/ StackSwap
    \/ StackPeerDestroy
    \/ StackDestroy

SpecStack == Init /\ [][NextStack]_vars

\* ----------------------------------------------------------- vector actions
IsVector == cont.live /\ cont.type = "vector"

\* the two vectors of a call: "cont" names the vector of cont, "peer" the
\* second one
Vectors == {"cont", "peer"}

\* the vector o as the object of a member function
VecThis(o) == IF o = "cont" THEN cont ELSE VecOver(peer, cont)

\* the members of the vector that is not o
VecOther(o) == IF o = "cont" THEN peer ELSE VecMembers(cont)

\* the call left v for the vector o and the members other for the other one
VecPut(o, v, other) ==
    IF o = "cont"
    THEN /\ cont' = v
         /\ peer' = other
    ELSE /\ cont' = VecOver(other, v)
         /\ peer' = VecMembers(v)

\* how the call ended: through a null allocator_ it has no continuation,
\* after a read or write outside an array it may have none
VecEnded(st) ==
    IF st.null THEN err' = "undefined"
    ELSE IF st.oob \/ st.uninit THEN err' \in {st.err, "undefined"}
    ELSE err' = st.err

\* the vector a member function of cont left, and how the call ended
VecCommit(st) ==
    /\ cont' = st.v
    /\ VecEnded(st)
    /\ UNCHANGED peer

VectorConstruct ==
    /\ Running
    /\ ~cont.live
    /\ cont' = vector("alloc")
    /\ op' = "vector"
    /\ arg' = 0
    /\ ret' = 0
    /\ err' = "none"
    /\ UNCHANGED <<kind, tree, aux, pool, palloc, peer>>

VectorReserve(size, oom) ==
    /\ Running
    /\ IsVector
    /\ VecCommit(reserve(VecFailing(cont, oom), size))
    /\ op' = "reserve"
    /\ arg' = size
    /\ ret' = 0
    /\ UNCHANGED <<kind, tree, aux, pool, palloc>>

VectorResize(new_size, oom) ==
    /\ Running
    /\ IsVector
    /\ VecCommit(resize(VecFailing(cont, oom), new_size))
    /\ op' = "resize"
    /\ arg' = new_size
    /\ ret' = 0
    /\ UNCHANGED <<kind, tree, aux, pool, palloc>>

VectorPushBack(value, oom) ==
    /\ Running
    /\ IsVector
    /\ cont.size_ < VecMaxSize
    /\ VecCommit(vector_push_back(VecFailing(cont, oom), value))
    /\ op' = "vector_push_back"
    /\ arg' = value
    /\ ret' = 0
    /\ UNCHANGED <<kind, tree, aux, pool, palloc>>

VectorPopBack ==
    /\ Running
    /\ IsVector
    /\ VecCommit(vector_pop_back(VecStarted(cont)))
    /\ op' = "vector_pop_back"
    /\ arg' = 0
    /\ ret' = 0
    /\ UNCHANGED <<kind, tree, aux, pool, palloc>>

VectorClear ==
    /\ Running
    /\ IsVector
    /\ cont' = vector_clear(cont)
    /\ op' = "vector_clear"
    /\ arg' = 0
    /\ ret' = 0
    /\ err' = "none"
    /\ UNCHANGED <<kind, tree, aux, pool, palloc, peer>>

\* vector<T> other(alloc);  a second vector, declared after the first
VectorPeer ==
    /\ Running
    /\ IsVector
    /\ ~peer.live
    /\ peer' = VecMembers(vector("alloc"))
    /\ op' = "vector_peer"
    /\ arg' = 0
    /\ ret' = 0
    /\ err' = "none"
    /\ UNCHANGED <<kind, tree, aux, pool, palloc, cont>>

\* vector<T> other(cont);  the initialisers leave allocator_ = nullptr, then
\* _set_by_copy.  A constructor that throws leaves no object.
VectorCopyConstruct(oom) ==
    /\ Running
    /\ IsVector
    /\ ~peer.live
    /\ LET fresh == [VecMembers(vector(NoAllocator)) EXCEPT !.live = TRUE]
           st == vector_set_by_copy(VecFailing(VecOver(fresh, cont), oom),
                                    VecMembers(cont))
       IN  /\ VecEnded(st)
           /\ IF st.err # "none"
              THEN /\ cont' = VecOver(VecMembers(cont), st.v)
                   /\ peer' = NoContainer
              ELSE VecPut("peer", st.v, VecMembers(cont))
    /\ op' = "vector_copy_construct"
    /\ arg' = 0
    /\ ret' = 0
    /\ UNCHANGED <<kind, tree, aux, pool, palloc>>

\* vector<T> other(utility::move(cont));
VectorMoveConstruct ==
    /\ Running
    /\ IsVector
    /\ ~peer.live
    /\ LET fresh == VecMembers(vector(NoAllocator))
           r == vector_set_by_move(VecOver(fresh, cont), VecMembers(cont))
       IN  VecPut("peer", r.v, r.o)
    /\ op' = "vector_move_construct"
    /\ arg' = 0
    /\ ret' = 0
    /\ err' = "none"
    /\ UNCHANGED <<kind, tree, aux, pool, palloc>>

\* o = other;  o being cont or the second vector
VectorCopyAssign(o, oom) ==
    /\ Running
    /\ IsVector
    /\ peer.live
    /\ LET st == vector_set_by_copy(VecFailing(VecThis(o), oom), VecOther(o))
       IN  /\ VecEnded(st)
           /\ VecPut(o, st.v, VecOther(o))
    /\ op' = "vector_copy_assign"
    /\ arg' = o
    /\ ret' = 0
    /\ UNCHANGED <<kind, tree, aux, pool, palloc>>

\* o = utility::move(other);
VectorMoveAssign(o) ==
    /\ Running
    /\ IsVector
    /\ peer.live
    /\ LET r == vector_set_by_move(VecThis(o), VecOther(o))
       IN  VecPut(o, r.v, r.o)
    /\ op' = "vector_move_assign"
    /\ arg' = o
    /\ ret' = 0
    /\ err' = "none"
    /\ UNCHANGED <<kind, tree, aux, pool, palloc>>

\* cont.swap(other);
VectorSwap ==
    /\ Running
    /\ IsVector
    /\ peer.live
    /\ LET r == vector_swap(cont, peer)
       IN  VecPut("cont", r.v, r.o)
    /\ op' = "vector_swap"
    /\ arg' = 0
    /\ ret' = 0
    /\ err' = "none"
    /\ UNCHANGED <<kind, tree, aux, pool, palloc>>

\* ~vector() of the second vector, which goes out of scope first
VectorPeerDestroy ==
    /\ Running
    /\ IsVector
    /\ peer.live
    /\ cont' = VecOver(VecMembers(cont), vector_clean(VecOver(peer, cont)))
    /\ peer' = NoContainer
    /\ op' = "vector_peer_destroy"
    /\ arg' = 0
    /\ ret' = 0
    /\ err' = "none"
    /\ UNCHANGED <<kind, tree, aux, pool, palloc>>

\* ~vector()
VectorDestroy ==
    /\ Running
    /\ IsVector
    /\ ~peer.live
    /\ cont' = NoContainer
    /\ op' = "vector_destroy"
    /\ arg' = 0
    /\ ret' = 0
    /\ err' = "none"
    /\ UNCHANGED <<kind, tree, aux, pool, palloc, peer>>

NextVector ==
    \/ VectorConstruct
    \/ \E size \in 0..VecMaxSize, oom \in BOOLEAN : VectorReserve(size, oom)
    \/ \E new_size \in 0..VecMaxSize, oom \in BOOLEAN :
           VectorResize(new_size, oom)
    \/ \E value \in VecVals, oom \in BOOLEAN : VectorPushBack(value, oom)
    \/ VectorPopBack
    \/ VectorClear
    \/ VectorPeer
    \/ \E oom \in BOOLEAN : VectorCopyConstruct(oom)
    \/ VectorMoveConstruct
    \/ \E o \in Vectors, oom \in BOOLEAN : VectorCopyAssign(o, oom)
    \/ \E o \in Vectors : VectorMoveAssign(o)
    \/ VectorSwap
    \/ VectorPeerDestroy
    \/ VectorDestroy

SpecVector == Init /\ [][NextVector]_vars

\* the heap and the x with which _delete(z) reaches its _delete_fix_up test:
\* y is spliced out and x->parent is set
_delete_spliced(m, z) ==
    LET y == IF (m[z].left = nil_) \/ (m[z].right = nil_)
             THEN z ELSE _tree_successor(m, z)
        x == IF m[y].left = nil_ THEN m[y].right ELSE m[y].left
        link(h) == [h EXCEPT ![x].parent = h[y].parent]
        splice(h) ==
            IF root_ = h[x].parent
            THEN [h EXCEPT ![root_].left = x]
            ELSE IF y = h[h[y].parent].left
                 THEN [h EXCEPT ![h[y].parent].left = x]
                 ELSE [h EXCEPT ![h[y].parent].right = x]
    IN  [mem |-> splice(link(m)), x |-> x, y |-> y]

\* ------------------------------------------------------------ observations
RECURSIVE Subtree(_, _, _)
\* the non-sentinel nodes below and including x, by child links
Subtree(m, x, fuel) ==
    IF (x = nil_) \/ (fuel = 0) THEN {}
    ELSE {x} \cup Subtree(m, m[x].left, fuel - 1)
             \cup Subtree(m, m[x].right, fuel - 1)

Reach(m) == Subtree(m, m[root_].left, Fuel)

Keys(m) == {KeyOf(m[a].data) : a \in Reach(m)}

RECURSIVE Walk(_, _, _)
Walk(m, x, fuel) ==
    IF (x = end(m)) \/ (fuel = 0) THEN <<>>
    ELSE <<m[x].data>> \o Walk(m, _next(m, x), fuel - 1)

\* the payloads met when iterating from begin() to end()
Traverse(m) == Walk(m, begin(m), Fuel)

Ascending(t) == \A i \in 1..(Len(t) - 1) : KeyOf(t[i]) < KeyOf(t[i + 1])

KeysOfSeq(t) == {KeyOf(t[i]) : i \in 1..Len(t)}

KeysOfSet(S) == {KeyOf(d) : d \in S}

RECURSIVE BlackHeights(_, _, _)
\* the numbers of black nodes on the paths from x down to the nil sentinel
BlackHeights(m, x, fuel) ==
    IF (x = nil_) \/ (fuel = 0) THEN {0}
    ELSE {h + (IF m[x].red THEN 0 ELSE 1) :
            h \in BlackHeights(m, m[x].left, fuel - 1)
                    \cup BlackHeights(m, m[x].right, fuel - 1)}

RootBlack(m) == ~m[m[root_].left].red

NoRedRed(m) ==
    \A a \in Reach(m) :
        m[a].red => (~m[m[a].left].red) /\ (~m[m[a].right].red)

EqualBlackHeight(m) ==
    \A a \in Reach(m) : Cardinality(BlackHeights(m, a, Fuel)) = 1

RedBlack(m) == RootBlack(m) /\ NoRedRed(m) /\ EqualBlackHeight(m)

\* ------------------------------------------------------------------ claims

\* C1: after any sequence of insert() calls on an initially empty set or map,
\* iterating from begin() to end() yields exactly the keys that were
\* inserted, each once, in strictly ascending order.  (SpecInsert)
C1_TraversalAscending ==
    LET t == Traverse(mem)
    IN  /\ Ascending(t)
        /\ KeysOfSeq(t) = KeysOfSet(ref)

C1_Witness ==
    /\ op = "insert"
    /\ ret[2] = TRUE
    /\ Len(Traverse(mem)) >= 4
    /\ KeyOf(arg) < KeyOf(Traverse(mem)[Len(Traverse(mem))])
    /\ KeyOf(arg) > KeyOf(Traverse(mem)[1])

\* C2: after every insert() in a sequence of inserts from the empty
\* container the real root is black, no red node has a red child and all
\* paths from a node to the nil sentinel hold equally many black nodes.
\* (SpecInsert)
C2_RedBlackAfterInsert == RedBlack(mem)

C2_Witness ==
    /\ op = "insert"
    /\ size_ >= 5
    /\ \E a \in Reach(mem) : mem[a].red
    /\ \E a \in Reach(mem) : (~mem[a].red) /\ a # mem[root_].left

\* C3: after every erase(iterator), in any interleaving of the operations,
\* the red-black invariants hold.
C3_RedBlackAfterErase == (op = "erase") => RedBlack(mem)

\* the tree left by erasing the black leaf 1 below the root 2 whose right
\* child 4 was red: the fix-up rotates 4 into the root and recolours 3
C3_Witness ==
    /\ kind = "set"
    /\ op = "erase"
    /\ err = "none"
    /\ arg = 1
    /\ Traverse(mem) = <<2, 3, 4, 5, 6>>
    /\ mem[root_].left = 4
    /\ mem[4].left = 2
    /\ mem[2].right = 3
    /\ mem[3].red

\* C4: after any interleaving of insert, erase and clear, size() is the
\* number of non-sentinel nodes reachable from the root sentinel's left
\* child.
C4_SizeCountsNodes == size_ = Cardinality(Reach(mem))

C4_Witness ==
    /\ op = "clear"
    /\ size_ = 0
    /\ Reach(mem) = {}
    /\ mem[nil_].parent \notin {nil_, root_}

\* C5: insert(v) with a key that is already stored returns the existing node
\* and false, and leaves size(), the links, colours and payloads of the tree
\* and the allocator's outstanding blocks unchanged.
C5_DuplicateInsertNoOp ==
    [][(op' = "insert" /\ KeyOf(arg') \in Keys(mem)) =>
         /\ ret'[2] = FALSE
         /\ ret'[1] \in Reach(mem)
         /\ KeyOf(mem[ret'[1]].data) = KeyOf(arg')
         /\ mem' = mem
         /\ size_' = size_
         /\ count' = count
         /\ blocks' = blocks]_vars

C5_Witness ==
    /\ kind = "map"
    /\ op = "insert"
    /\ ret[2] = FALSE
    /\ mem[ret[1]].data # arg
    /\ size_ >= 2

\* C6: find(key) returns a node other than end() holding the stored payload
\* for every key that is stored, and end() for every key that is not.
C6_FindRoundTrip ==
    \A k \in KeysOfKind(kind) :
        LET node == find(mem, k)
        IN  IF HasKey(ref, k)
            THEN /\ node # end(mem)
                 /\ mem[node].data \in ref
                 /\ KeyOf(mem[node].data) = k
            ELSE node = end(mem)

C6_Witness ==
    /\ op = "find"
    /\ ret # end(mem)
    /\ ret # mem[root_].left
    /\ mem[ret].data \in ref
    /\ \E k \in KeysOfKind(kind) : ~HasKey(ref, k) /\ find(mem, k) = end(mem)
    /\ size_ >= 3

\* C7: erase(find(k)) for a stored key k makes find(k) return end(), lowers
\* size() by exactly one, keeps every other stored key findable, and leaves
\* a traversal that yields the remaining keys in ascending order.
C7_EraseRemovesOne ==
    [][(op' = "erase" /\ err' = "none") =>
         LET k == KeyOf(mem[arg'].data)
         IN  /\ find(mem', k) = end(mem')
             /\ size_' = size_ - 1
             /\ \A j \in Keys(mem) \ {k} :
                    /\ find(mem', j) # end(mem')
                    /\ KeyOf(mem'[find(mem', j)].data) = j
             /\ Ascending(Traverse(mem'))
             /\ KeysOfSeq(Traverse(mem')) = Keys(mem) \ {k}]_vars

\* the spec's scenario, order-isomorphic within the modelled keys: of the six
\* keys the fifth is erased
C7_Witness ==
    /\ kind = "set"
    /\ op = "erase"
    /\ err = "none"
    /\ Traverse(mem) = <<1, 2, 3, 4, 6>>

\* C8: erase(value) / erase(key) returns 1 and removes the element when the
\* key is stored, returns 0 and changes nothing when it is not, and leaves
\* exactly the other stored keys.
C8_EraseValueCounts ==
    [][(op' = "erase_value") =>
         /\ err' = "none"
         /\ IF arg' \in Keys(mem)
            THEN /\ ret' = 1
                 /\ Keys(mem') = Keys(mem) \ {arg'}
                 /\ size_' = size_ - 1
            ELSE /\ ret' = 0
                 /\ mem' = mem
                 /\ size_' = size_]_vars

\* C9: erase(pos) with pos at end() raises the invalid-operation error and
\* leaves the tree, its colours, size() and the allocator unchanged.
C9_EraseEndThrows ==
    [][(op' = "erase" /\ arg' = end(mem)) =>
         /\ err' = "runtime_error"
         /\ mem' = mem
         /\ size_' = size_
         /\ blocks' = blocks
         /\ count' = count]_vars

C9_Witness ==
    /\ op = "erase"
    /\ arg = end(mem)
    /\ err = "runtime_error"
    /\ size_ >= 2

\* C10: operator++ on an iterator positioned at end() raises the
\* invalid-operation error.
C10_IncrementEndThrows ==
    (op = "increment" /\ arg = end(mem)) => err = "runtime_error"

\* the payloads met when iterating object o from begin() to end(), o being
\* an object with sentinels
TraverseOf(os, hs, o) == Traverse(hs[os[o].arena].mem)

\* o holds its sentinels: it was constructed and not moved from
Intact(os, o) == os[o].live /\ os[o].nil_ # NULLPTR /\ os[o].root_ # NULLPTR

\* C11: copy-constructing or copy-assigning from a source holding n elements
\* completes and yields a container with size() = n and the same payloads in
\* the same traversal order, in nodes of its own, with the source's allocator
\* reference; the source is unchanged.
C11_CopyIsDeep ==
    [][(/\ op' \in {"copy_construct", "copy_assign"}
        /\ arg' = NoFail
        /\ Intact(objs, "other")) =>
         /\ err' = "none"
         /\ Intact(objs', "this")
         /\ objs'["this"].size_ = objs["other"].size_
         /\ TraverseOf(objs', heaps', "this") = TraverseOf(objs, heaps, "other")
         /\ objs'["this"].arena # objs'["other"].arena
         /\ objs'["this"].allocator_ = objs["other"].allocator_
         /\ objs'["other"] = objs["other"]
         /\ heaps'[objs["other"].arena] = heaps[objs["other"].arena]]_vars

\* C12: a move-construction or move-assignment hands the source's sentinels,
\* nodes and size to the destination without allocating or copying a node,
\* and leaves the source empty and without allocator; begin(), end(), clear()
\* and the destructor of the moved-from source then complete without
\* dereferencing a missing sentinel.
C12_MovedFromIsValid ==
    [][/\ (/\ op' \in {"move_construct", "move_assign"}
           /\ Intact(objs, "other")) =>
            /\ err' = "none"
            /\ objs'["this"].nil_ = objs["other"].nil_
            /\ objs'["this"].root_ = objs["other"].root_
            /\ objs'["this"].arena = objs["other"].arena
            /\ objs'["this"].size_ = objs["other"].size_
            /\ heaps'[objs["other"].arena] = heaps[objs["other"].arena]
            /\ \A a \in Allocators : acount'[a] <= acount[a]
            /\ objs'["other"].live
            /\ objs'["other"].size_ = 0
            /\ objs'["other"].allocator_ = NoAllocator
       /\ (/\ op' \in {"begin_in", "end_in", "clear_in", "destroy"}
           /\ arg' = "other"
           /\ objs["other"].live
           /\ objs["other"].root_ = NULLPTR) => (err' = "none")]_vars

\* C13: with the counting allocator the number of outstanding blocks is
\* size() + 2 after every insert, trusted_insert, erase and clear; an insert
\* of a new key and a trusted_insert allocate exactly one block, an insert of
\* a stored key allocates none, and an erase of an element frees exactly one.
C13_BlocksAreSizePlusTwo ==
    [][(err' = "none") =>
         /\ count' = size_' + 2
         /\ Cardinality(blocks') = count'
         /\ (op' = "insert" /\ ~HasKey(ref, KeyOf(arg'))) => (count' = count + 1)
         /\ (op' = "insert" /\ HasKey(ref, KeyOf(arg'))) =>
                (count' = count /\ blocks' = blocks)
         /\ (op' = "trusted_insert") => (count' = count + 1)
         /\ (op' = "erase") => (count' = count - 1)
         /\ (op' = "erase_value" /\ HasKey(ref, arg')) => (count' = count - 1)
         /\ (op' = "erase_value" /\ ~HasKey(ref, arg')) => (count' = count)
         /\ (op' = "clear") => (count' = 2)]_vars

C13_Witness ==
    /\ op = "erase"
    /\ err = "none"
    /\ size_ >= 2
    /\ count = size_ + 2
    /\ Cardinality(blocks) = count

\* the container a constructor leaves
FreshWorld ==
    _make_root_node(
        _make_nil_node([mem |-> [a \in Addr |-> Junk], size_ |-> 0,
                        blocks |-> {}, count |-> 0], nil_), root_)

\* the heap apart from the parent link of the nil sentinel, which _delete
\* writes and nothing reads
IgnoreNilParent(m) == [m EXCEPT ![nil_].parent = nil_]

\* in the state a clear or an insert leaves, no insert depends on the parent
\* link of the nil sentinel
InsertIgnoresNilParent ==
    (op \in {"clear", "insert"} /\ mem[nil_].parent # nil_) =>
        \A v \in Payloads(kind) :
            LET r == insert(World, v)
                q == insert([World EXCEPT !.mem = IgnoreNilParent(mem)], v)
            IN  /\ r.ret = q.ret
                /\ IgnoreNilParent(r.w.mem) = q.w.mem
                /\ r.w.size_ = q.w.size_
                /\ r.w.blocks = q.w.blocks

\* C14: clear() frees each element's node once and keeps the two sentinels,
\* leaving size() = 0 and begin() = end(); the cleared container is the one
\* a constructor leaves (up to the nil sentinel's parent link), and in the
\* states a clear or an insert leaves no insert depends on that link, so
\* further inserts act on the cleared container as on a fresh one.
C14_ClearResets ==
    /\ []InsertIgnoresNilParent
    /\ [][(op' = "clear") =>
            /\ err' = "none"
            /\ blocks' = {nil_, root_}
            /\ count' = count - size_
            /\ size_' = 0
            /\ begin(mem') = end(mem')
            /\ IgnoreNilParent(mem') = FreshWorld.mem
            /\ count' = FreshWorld.count]_vars

C14_Witness ==
    /\ op = "clear"
    /\ err = "none"
    /\ size_ = 0
    /\ blocks = {nil_, root_}
    /\ mem[nil_].parent # nil_

\* every chunk the pool has linked lies inside its slab: no header was
\* written past the end of a buffer
SlabsHoldChunks(p) ==
    \A c \in DOMAIN p.next : c[2] + HeaderSize <= Slabs(p)[c[1]]

Ceil(m, k) == (m + k - 1) \div k

\* the slabs the pool owns: the elements of buffers_ that hold a slab
SlabsOwned(p) ==
    Cardinality({i \in DOMAIN Slabs(p) : Slabs(p)[i] # Indeterminate})

\* C15: an allocate that returns acquires a slab exactly when the free list
\* is empty at the call, and one slab at most; with k >= 1 chunks per slab
\* and no free so far, the pool owns ceil(m / k) slabs after m allocations.
\* (Runs in which a chunk was linked outside its slab are undefined and not
\* covered.)
C15_SlabsOnDemand ==
    [][(/\ op' = "allocate"
        /\ err' = "none"
        /\ SlabsHoldChunks(pool')) =>
         /\ (SlabsOwned(pool') = SlabsOwned(pool) + 1) <=>
                (pool.head_ = NullChunk)
         /\ (pool.head_ # NullChunk) => (Slabs(pool') = Slabs(pool))
         /\ (pool'.frees = 0 /\ pool'.num_chunks_ >= 1) =>
                (SlabsOwned(pool') = Ceil(pool'.allocs, pool'.num_chunks_))]_vars

C15_Witness ==
    /\ op = "allocate"
    /\ err = "none"
    /\ pool.num_chunks_ = 2
    /\ pool.allocs = 3
    /\ pool.frees = 0
    /\ SlabsOwned(pool) = 2
    /\ SlabsHoldChunks(pool)

RECURSIVE ListFrom(_, _, _)
\* the chunks of the free list from c on, top first
ListFrom(p, c, fuel) ==
    IF c = NullChunk \/ fuel = 0 THEN <<>>
    ELSE <<c>> \o ListFrom(p, p.next[c], fuel - 1)

FreeList(p) == ListFrom(p, p.head_, MaxChunks * MaxSlabs + 1)

\* the pointer allocate returns for a chunk
PointerOf(c) == <<c[1], c[2] + HeaderSize>>

\* C16: an allocate that directly follows free(b) returns b and acquires no
\* slab; the free list is a stack: free puts the chunk on top, and allocate
\* takes the top whenever the list is not empty, so it returns the most
\* recently freed chunk not handed out again.  (Runs in which a chunk was
\* linked outside its slab are undefined and not covered.)
C16_LifoReuse ==
    [][/\ (/\ op = "free" /\ err = "none"
           /\ op' = "allocate" /\ err' = "none"
           /\ SlabsHoldChunks(pool)) =>
            /\ ret' = arg
            /\ Slabs(pool') = Slabs(pool)
       /\ (/\ op' = "free" /\ err' = "none"
           /\ SlabsHoldChunks(pool)) =>
            /\ PointerOf(pool'.head_) = arg'
            /\ FreeList(pool') = <<pool'.head_>> \o FreeList(pool)
       /\ (/\ op' = "allocate" /\ err' = "none"
           /\ pool.head_ # NullChunk
           /\ SlabsHoldChunks(pool)) =>
            /\ ret' = PointerOf(pool.head_)
            /\ FreeList(pool') = Tail(FreeList(pool))]_vars

C16_Witness ==
    /\ op = "allocate"
    /\ err = "none"
    /\ pool.frees >= 2
    /\ pool.head_ # NullChunk
    /\ pool.allocs = pool.frees + 1
    /\ SlabsHoldChunks(pool)

\* C17: the first allocate sets the chunk size to the header size plus the
\* requested size, and while the pool owns a slab no allocate and no free
\* changes it, whether or not chunks are outstanding.
C17_ChunkSizeFixed ==
    [][/\ (/\ op' = "allocate" /\ err' = "none"
           /\ Len(Slabs(pool)) = 0) =>
            (pool'.chunk_size_ = HeaderSize + arg')
       /\ (/\ op' \in {"allocate", "free"}
           /\ Len(Slabs(pool)) >= 1) =>
            (pool'.chunk_size_ = pool.chunk_size_)]_vars

\* the size of the request that fixed the chunk size
FirstSize(p) == (p.chunk_size_ + SizeTypeRange - HeaderSize) % SizeTypeRange

\* C18: in a debug build an allocate on a pool that owns a slab fails the
\* assertion, before any state changes, when its size differs from the first
\* request's; it never fails it when the size is the same, nor on a pool
\* without a slab.
C18_SizeCheckedInDebug ==
    [][(op' = "allocate" /\ pool.debug) =>
         /\ (Len(Slabs(pool)) >= 1 /\ arg' # FirstSize(pool)) =>
                (err' = "assertion" /\ pool' = pool)
         /\ (Len(Slabs(pool)) >= 1 /\ arg' = FirstSize(pool)) =>
                (err' # "assertion")
         /\ (Len(Slabs(pool)) = 0) => (err' # "assertion")]_vars

\* C19: when the allocator fails while insert() or map operator[] requests a
\* node, the caller gets the out-of-memory error and the tree is as before
\* the call: same links, colours and payloads, same blocks, same size();
\* for a key that is stored no node is requested and the call returns.
C19_FailedInsertLeavesTree ==
    [][(op' \in {"insert_oom", "index_oom"}) =>
         LET key == IF op' = "index_oom" THEN arg' ELSE KeyOf(arg')
         IN  /\ ~HasKey(ref, key) =>
                  /\ err' = "bad_alloc"
                  /\ mem' = mem
                  /\ size_' = size_
                  /\ blocks' = blocks
             /\ HasKey(ref, key) =>
                  /\ err' = "none"
                  /\ mem' = mem
                  /\ size_' = size_
                  /\ blocks' = blocks]_vars

C19_Witness ==
    /\ op \in {"insert_oom", "index_oom"}
    /\ err = "bad_alloc"
    /\ size_ >= 3
    /\ \E a \in Reach(mem) : mem[a].red

\* C20: when an allocation fails during copy-construction or copy-assignment
\* the destination is a valid tree of exactly the elements copied so far: it
\* has both sentinels, size() is the number of its elements, they are the
\* first elements of the source in order, the red-black invariants hold, and
\* destroying it releases every block it holds.
C20_PartialCopyIsValid ==
    [][/\ (/\ op' \in {"copy_construct", "copy_assign"}
           /\ err' = "bad_alloc") =>
            /\ Intact(objs', "this")
            /\ objs'["this"].size_ = Len(TraverseOf(objs', heaps', "this"))
            /\ TraverseOf(objs', heaps', "this") =
                 SubSeq(TraverseOf(objs, heaps, "other"), 1,
                        objs'["this"].size_)
            /\ RedBlack(heaps'[objs'["this"].arena].mem)
       /\ (/\ op \in {"copy_construct", "copy_assign"}
           /\ err = "bad_alloc"
           /\ op' = "destroy"
           /\ arg' = "this") =>
            /\ err' = "none"
            /\ ~objs'["this"].live
            /\ (objs["this"].arena \in Arenas) =>
                 (heaps'[objs["this"].arena].blocks = {})]_vars

RECURSIVE Depth(_, _, _)
\* the number of nodes on the longest path from x down to the nil sentinel
Depth(m, x, fuel) ==
    IF (x = nil_) \/ (fuel = 0) THEN 0
    ELSE LET l == Depth(m, m[x].left, fuel - 1)
             r == Depth(m, m[x].right, fuel - 1)
         IN  1 + (IF l < r THEN r ELSE l)

Height(m) == Depth(m, m[root_].left, HeightFuel)

\* ceil(log2(n)) for 1 <= n <= 2^HeightFuel
CeilLog2(n) == CHOOSE e \in 0..HeightFuel :
                   /\ n <= 2^e
                   /\ (e = 0) \/ (2^(e - 1) < n)

HeightBound(m, n) == Height(m) <= 2 * CeilLog2(n + 1)

\* the set after insert(5), insert(2), insert(8), insert(1), insert(9),
\* insert(3) on the constructed container
RECURSIVE InsertEach(_, _, _)
InsertEach(w, s, i) ==
    IF i > Len(s) THEN w ELSE InsertEach(insert(w, s[i]).w, s, i + 1)

AfterInserts == InsertEach(World, <<5, 2, 8, 1, 9, 3>>, 1)

\* and after erase(find(8)) on it
AfterErase == erase_iterator(AfterInserts, find(AfterInserts.mem, 8)).w

TraverseAll(m) == Walk(m, begin(m), HeightFuel)

\* C21: after any sequence of insert and erase calls on a set the height of
\* the tree (nodes on its longest root-to-leaf path) is at most
\* 2 * ceil(log2(size() + 1)); inserting 5, 2, 8, 1, 9, 3 gives the traversal
\* 1, 2, 3, 5, 8, 9 and erasing 8 then gives 1, 2, 3, 5, 9, both within that
\* bound.  (SpecHeight)
C21_HeightBound ==
    /\ HeightBound(mem, size_)
    /\ (op = "init") =>
          /\ TraverseAll(AfterInserts.mem) = <<1, 2, 3, 5, 8, 9>>
          /\ HeightBound(AfterInserts.mem, AfterInserts.size_)
          /\ TraverseAll(AfterErase.mem) = <<1, 2, 3, 5, 9>>
          /\ AfterErase.size_ = 5
          /\ HeightBound(AfterErase.mem, AfterErase.size_)

\* the scenario's last call has returned: 8 erased from {1, 2, 3, 5, 8, 9}
C21_Witness ==
    /\ op = "erase"
    /\ arg = 8
    /\ err = "none"
    /\ TraverseAll(mem) = <<1, 2, 3, 5, 9>>
    /\ Height(mem) = 3

\* C22: m[key] on a map that holds key returns a reference to the value stored
\* under it and leaves size(), the tree and the allocator as they were; on a
\* map that does not hold key it adds the pair (key, T()) and returns a
\* reference to its value, size() grows by one, the other pairs stay, and the
\* traversal stays ascending and the tree red-black.  (SpecIndex)
C22_IndexFindsOrInserts ==
    [][(op' = "index") =>
        LET key == arg'
            before == Traverse(mem)
            after == Traverse(mem')
        IN  /\ err' = "none"
            /\ KeyOf(mem'[ret'].data) = key
            /\ IF key \in KeysOfSeq(before)
               THEN /\ mem'[ret'].data \in ref
                    /\ mem' = mem
                    /\ size_' = size_
                    /\ blocks' = blocks
                    /\ count' = count
               ELSE /\ mem'[ret'].data = <<key, 0>>
                    /\ size_' = size_ + 1
                    /\ Len(after) = Len(before) + 1
                    /\ {after[i] : i \in 1..Len(after)} =
                           {before[i] : i \in 1..Len(before)} \cup {<<key, 0>>}
                    /\ Ascending(after)
                    /\ RedBlack(mem')]_vars

\* m[2] has returned the reference to the 1 stored under 2 in a map of three
\* pairs
C22_Witness ==
    /\ op = "index"
    /\ arg = 2
    /\ mem[ret].data = <<2, 1>>
    /\ size_ = 3

RECURSIVE ListWalk(_, _, _)
\* the data met when iterating a list from node to end()
ListWalk(l, node, fuel) ==
    IF (node = list_end) \/ (fuel = 0) THEN <<>>
    ELSE <<l.nodes[node].data>> \o ListWalk(l, list_next(l, node), fuel - 1)

ListTraverse(l) == ListWalk(l, list_begin(l), ListMaxLen + 1)

\* C23: after any sequence of push_front, push_back, pop_front, pop_back,
\* insert(pos, v), erase(pos) and remove(v) on a list, iterating from begin()
\* to end() yields the reference sequence the same operations produce;
\* size() is its length, front() and back() are its first and last elements,
\* and erase(pos) returns the iterator to the element that followed pos
\* (end() when pos was the last element).  (SpecList)
C23_ListRefinesSequence ==
    IsList =>
        /\ ListTraverse(cont) = ref
        /\ cont.size_ = Len(ref)
        /\ (ref # <<>>) => /\ front(cont) = ref[1]
                           /\ back(cont) = ref[Len(ref)]
        /\ (op = "list_erase") =>
               ret = Advance(cont, list_begin(cont), arg)

\* erase(pos) has removed the middle element of the list 1, 2, 1 and returned
\* the iterator to the last element
C23_Witness ==
    /\ IsList
    /\ op = "list_erase"
    /\ arg = 1
    /\ ref = <<1, 1>>
    /\ ret = cont.tail_
    /\ ret # NULLPTR
    /\ ret # cont.head_

RECURSIVE StackNodes(_, _, _)
\* the nodes of the stack s from node on
StackNodes(s, node, fuel) ==
    IF node = NULLPTR \/ fuel = 0 THEN {}
    ELSE {node} \cup StackNodes(s, s.nodes[node].next, fuel - 1)

\* C24: after any sequence of push and pop on a stack, top() is the most
\* recently pushed element that has not been popped and size() is the number
\* of such elements; pop() right after push(v) gives back the previous top()
\* and size(); clear() leaves size() = 0 and top() throwing.  (SpecStack)
C24_StackRefinesSequence ==
    (IsStack /\ Running) =>
        /\ err = "none"
        /\ cont.size_ = Len(ref)
        /\ top(cont) = IF ref = <<>> THEN [err |-> "range_error", data |-> 0]
                       ELSE [err |-> "none", data |-> ref[1]]
        /\ (/\ cont.allocator_ # NoAllocator
            /\ Cardinality(cont.blocks) < StackMaxLen) =>
               \A v \in ListVals :
                   LET pushed == stack_push(cont, v)
                       popped == stack_pop(pushed)
                   IN  /\ top(pushed) = [err |-> "none", data |-> v]
                       /\ pushed.size_ = cont.size_ + 1
                       /\ top(popped) = top(cont)
                       /\ popped.size_ = cont.size_
                       /\ popped.head_ = cont.head_
        /\ (op = "stack_clear") =>
               /\ cont.size_ = 0
               /\ cont.blocks = IF peer.live
                                THEN StackNodes(StackOver(peer, cont),
                                                peer.head_, StackMaxLen)
                                ELSE {}

\* pop() has uncovered a 1 that lies on top of a 2
C24_Witness ==
    /\ IsStack
    /\ op = "pop"
    /\ ref = <<1, 2>>
    /\ top(cont).data = 1
    /\ cont.size_ = 2

\* C25: in every vector state reachable by reserve, resize, push_back and
\* pop_back, resize(n) leaves size() = n and capacity() >= n, and reserve(c)
\* on an empty vector leaves size() = 0 and capacity() = c.  (SpecVector)
C25_ResizeWithinCapacity ==
    [][/\ (op' = "resize" /\ err = "none" /\ err' = "none") =>
              /\ cont'.size_ = arg'
              /\ cont'.buffer_size_ >= arg'
       /\ (/\ op' = "reserve" /\ err = "none" /\ err' = "none"
           /\ IsVector /\ cont.size_ = 0) =>
              /\ cont'.size_ = 0
              /\ cont'.buffer_size_ = arg']_vars

\* C26: erase(value) on a set / erase(key) on a map never reads the links or
\* the payload of a node after _delete has released it: once the loop has
\* deleted the matching node, ++it does not go through that node.
C26_EraseValueNoUseAfterFree ==
    [][(op' = "erase_value") =>
          ~_erase_loop(World, arg', begin(mem), 0, FALSE).uaf]_vars

\* the blocks the call op of object o hands to o's allocator_->free: all of
\* o's blocks when _clean() runs, the element nodes when clear() runs
Releases(o, call) ==
    IF (~objs[o].live) \/ (objs[o].arena = 0) THEN {}
    ELSE IF call = "clear_in"
    THEN heaps[objs[o].arena].blocks \ {nil_, root_}
    ELSE heaps[objs[o].arena].blocks

\* the object whose blocks the step releases
Releaser == IF op' \in {"copy_assign", "move_assign"} THEN "this" ELSE arg'

\* C27: every block a set/map releases goes back to the allocator instance
\* it was obtained from, whether it is released by clear(), by the _clean()
\* of copy-assignment or move-assignment, or by the destructor, and whatever
\* constructions, copy-assignments from a container with another allocator,
\* move-assignments and swaps preceded.  (SpecCopy)
C27_ReleasedToOrigin ==
    [][(op' \in {"clear_in", "copy_assign", "move_assign", "destroy"}) =>
          \A a \in Releases(Releaser, op') :
              heaps[objs[Releaser].arena].from[a] =
                  objs[Releaser].allocator_]_vars

\* no chunk occurs twice in the sequence
NoRepeat(seq) == \A i, j \in DOMAIN seq : (seq[i] = seq[j]) => (i = j)

\* the pool's bookkeeping is sound: no chunk is on the free list twice, and
\* no chunk of the free list is outstanding
FreeListSound(p) ==
    /\ NoRepeat(FreeList(p))
    /\ \A i \in DOMAIN FreeList(p) : PointerOf(FreeList(p)[i]) \notin p.out

\* C28: with callers that free only pointers allocate returned and that are
\* not yet freed, allocate never returns a pointer that is outstanding at the
\* call, no chunk is on the free list twice and no chunk is both on the free
\* list and outstanding.  (Pools of at least one chunk per slab; runs in
\* which a chunk was linked outside its slab are undefined and not covered.)
C28_NoDoubleHandout ==
    /\ [](( /\ pool.live
            /\ pool.num_chunks_ >= 1
            /\ SlabsHoldChunks(pool)) => FreeListSound(pool))
    /\ [][(/\ op' = "allocate"
           /\ err' = "none"
           /\ pool.num_chunks_ >= 1
           /\ SlabsHoldChunks(pool')) => (ret' \notin pool.out)]_vars

C28_Witness ==
    /\ op = "allocate"
    /\ err = "none"
    /\ pool.num_chunks_ = 2
    /\ Len(Slabs(pool)) = 2
    /\ pool.frees >= 1
    /\ Cardinality(pool.out) >= 2
    /\ Len(FreeList(pool)) >= 1
    /\ SlabsHoldChunks(pool)

RECURSIVE CountPaths(_, _, _)
\* the number of child-link paths from x to a non-sentinel node, x included;
\* a node beyond the depth of every tree over the modelled keys still counts
CountPaths(m, x, fuel) ==
    IF x = nil_ THEN 0
    ELSE IF fuel = 0 THEN 1
    ELSE 1 + CountPaths(m, m[x].left, fuel - 1)
           + CountPaths(m, m[x].right, fuel - 1)

\* every non-nil child of a reachable node has that node as its parent, and
\* the real root's parent is the root sentinel
ParentsMatch(m) ==
    /\ (m[root_].left # nil_) => (m[m[root_].left].parent = root_)
    /\ \A n \in Reach(m) :
          /\ (m[n].left # nil_) => (m[m[n].left].parent = n)
          /\ (m[n].right # nil_) => (m[m[n].right].parent = n)

\* the reachable nodes form a tree: each is reached by exactly one path
IsTree(m) == CountPaths(m, m[root_].left, Fuel) = Cardinality(Reach(m))

\* iterating from begin() to end() visits every reachable node once
VisitsAll(m) ==
    /\ Len(Traverse(m)) = Cardinality(Reach(m))
    /\ {Traverse(m)[i] : i \in 1..Len(Traverse(m))} =
           {m[a].data : a \in Reach(m)}

\* C29: after every insert, erase and clear the links agree: a non-nil left
\* or right child of a reachable node has that node as parent, the real
\* root's parent is the root sentinel, the nodes reachable from the root form
\* a tree (no cycle, no node on two paths), and successor traversal by
\* parent links visits every one of them.
C29_LinksConsistent ==
    /\ ParentsMatch(mem)
    /\ IsTree(mem)
    /\ VisitsAll(mem)

C29_Witness ==
    /\ op = "erase"
    /\ err = "none"
    /\ size_ >= 4
    /\ \E n \in Reach(mem) :
          /\ mem[n].parent # root_
          /\ mem[n].left # nil_
          /\ mem[n].right # nil_
          /\ mem[mem[n].left].parent = n

\* C30: whatever insert, erase and clear calls preceded, the destructor
\* releases every remaining node and both sentinels, each once: the blocks
\* held are exactly the reachable nodes and the two sentinels, the number of
\* releases equals the number of blocks held, no block is left, and the
\* allocator's count is back at zero.  (SpecDestroy)
C30_DestroyFreesAll ==
    [][(op' = "destroy") =>
          /\ blocks = Reach(mem) \cup {nil_, root_}
          /\ count - count' = Cardinality(blocks)
          /\ blocks' = {}
          /\ count' = 0]_vars

C30_Witness ==
    /\ op = "destroy"
    /\ err = "none"
    /\ size_ >= 3
    /\ blocks = {}
    /\ count = 0

\* C31: every allocation request a set/map instance issues, for the nil
\* sentinel, the root sentinel and each inserted node, has the size of
\* node_t; a pool that serves the instance has its chunk payload fixed to
\* that size by the first request and never fails its size assertion.
\* (SpecNodePool)
C31_OneRequestSize ==
    /\ palloc.sizes \subseteq {sizeof_node_t}
    /\ err # "assertion"
    /\ (pool.live /\ Len(Slabs(pool)) >= 1) =>
           (pool.chunk_size_ = HeaderSize + sizeof_node_t)
    /\ DOMAIN palloc.at = blocks
    /\ {palloc.at[a] : a \in DOMAIN palloc.at} = pool.out
    /\ Cardinality(pool.out) = Cardinality(blocks)

C31_Witness ==
    /\ op = "insert"
    /\ err = "none"
    /\ pool.debug
    /\ pool.frees >= 1
    /\ Len(Slabs(pool)) >= 2
    /\ size_ = NodeMaxKey
    /\ palloc.sizes = {sizeof_node_t}

\* C32: at every point of a run of allocate and valid free calls, the chunks
\* on the free list and the chunks outstanding together are num_chunks times
\* the slabs owned, and the chunks outstanding are the allocate calls that
\* returned minus the free calls, hence never more than the allocate calls.
\* (Pools of at least one chunk per slab; runs in which a chunk was linked
\* outside its slab are undefined and not covered.)
C32_ChunksConserved ==
    (/\ pool.live
     /\ pool.num_chunks_ >= 1
     /\ SlabsHoldChunks(pool)) =>
        /\ Len(FreeList(pool)) + Cardinality(pool.out) =
               pool.num_chunks_ * SlabsOwned(pool)
        /\ Cardinality(pool.out) = pool.allocs - pool.frees
        /\ Cardinality(pool.out) <= pool.allocs

C32_Witness ==
    /\ op = "free"
    /\ err = "none"
    /\ pool.num_chunks_ = 2
    /\ SlabsOwned(pool) = 2
    /\ pool.allocs >= 4
    /\ pool.frees = 2
    /\ Len(FreeList(pool)) = 2
    /\ SlabsHoldChunks(pool)

\* the sequence without its element e
SeqWithout(t, e) ==
    LET F[i \in 0..Len(t)] ==
            IF i = 0 THEN <<>>
            ELSE IF t[i] = e THEN F[i - 1] ELSE Append(F[i - 1], t[i])
    IN  F[Len(t)]

\* the iterator refers to a stored node with two children
TwoChildren ==
    /\ it \in blocks \ {nil_, root_}
    /\ mem[it].left # nil_
    /\ mem[it].right # nil_

\* C33: erase(pos) on a node with two children releases the node pos refers
\* to and no other; its in-order successor is relinked into its place with
\* the colour, parent and children the released node had when it was taken
\* out, and the neighbours point back to the successor; every other node
\* keeps its block and payload, so the traversal is the former one without
\* the erased payload.
C33_EraseRelinksSuccessor ==
    [][(op' = "erase" /\ err' = "none" /\ TwoChildren) =>
          /\ blocks' = blocks \ {it}
          /\ _tree_successor(mem, it) \in blocks'
          /\ \A a \in blocks' \ {nil_, root_} : mem'[a].data = mem[a].data
          /\ _delete(World, it).mem[_tree_successor(mem, it)] =
                 [_delete(World, it).mem[it] EXCEPT
                     !.data = mem[_tree_successor(mem, it)].data]
          /\ mem'[mem'[_tree_successor(mem, it)].left].parent =
                 _tree_successor(mem, it)
          /\ mem'[mem'[_tree_successor(mem, it)].right].parent =
                 _tree_successor(mem, it)
          /\ _tree_successor(mem, it) \in
                 {mem'[mem'[_tree_successor(mem, it)].parent].left,
                  mem'[mem'[_tree_successor(mem, it)].parent].right}
          /\ (mem[_tree_successor(mem, it)].red) =>
                 /\ mem'[_tree_successor(mem, it)].red = mem[it].red
                 /\ mem'[_tree_successor(mem, it)].parent = mem[it].parent
                 /\ mem'[_tree_successor(mem, it)].left = mem[it].left
          /\ Traverse(mem') = SeqWithout(Traverse(mem), mem[it].data)]_vars

\* the root of the tree of keys 1, 2, 3 has been erased
C33_Witness ==
    /\ op = "erase"
    /\ err = "none"
    /\ arg = 2
    /\ blocks = {nil_, root_, 1, 3}
    /\ mem[root_].left = 3
    /\ mem[3].left = 1
    /\ mem[1].parent = 3

\* the heap in which insert(v) enters its loop: the node is linked and red
Linked(v) ==
    [_insert_help([_allocate_node(World, KeyOf(v)).mem EXCEPT
                      ![KeyOf(v)].data = v], KeyOf(v))
        EXCEPT ![KeyOf(v)].red = TRUE]

\* the loop insert(v) runs, counted
InsertRun(v) == _insert_loop_counted(Linked(v), KeyOf(v), Fuel)

\* the loop the erase of the stored node z runs, counted
DeleteRun(z) ==
    _delete_fix_up_counted(_delete_spliced(mem, z).mem,
                           _delete_spliced(mem, z).mem[root_].left,
                           _delete_spliced(mem, z).x, Fuel)

\* erase of z runs the delete fix-up: the node spliced out is black
RunsFixUp(z) == ~mem[_delete_spliced(mem, z).y].red

\* C34: in every tree a set or map reaches by insert (in any order), erase
\* and clear, the fix-up loop that insert runs for any key not stored and the
\* fix-up loop that erase runs for any stored node exit, after a number of
\* passes that is at most the height of the tree (with the new node linked,
\* for insert).
C34_FixUpLoopsBounded ==
    /\ \A v \in FixPayloads(kind) :
          (~HasKey(ref, KeyOf(v))) =>
             /\ InsertRun(v).exits
             /\ InsertRun(v).passes <= Height(Linked(v))
    /\ \A z \in blocks \ {nil_, root_} :
          RunsFixUp(z) =>
             /\ DeleteRun(z).exits
             /\ DeleteRun(z).passes <= Height(mem)

\* a tree in which the erase of some node takes two passes of the delete
\* fix-up loop, and the insert of some key takes a pass of the insert loop
C34_Witness ==
    /\ err = "none"
    /\ \E v \in FixPayloads(kind) :
          /\ ~HasKey(ref, KeyOf(v))
          /\ InsertRun(v).passes >= 1
    /\ \E z \in blocks \ {nil_, root_} :
          /\ RunsFixUp(z)
          /\ DeleteRun(z).passes >= 2

\* C35 (counterexample): when resize or push_back grows a vector and reserve
\* replaces its buffer, reserve reads the old buffer only at indices below the
\* element count the vector had before the call, and never at or beyond the
\* old buffer's capacity.  (SpecVector)
Regrown ==
    /\ IsVector
    /\ op' \in {"resize", "vector_push_back"}
    /\ cont.buffer_ # NULLPTR
    /\ cont.buffer_size_ = Len(cont.heap[cont.buffer_])
    /\ cont.size_ <= cont.buffer_size_
    /\ cont.size_ < cont'.size_
    /\ cont'.buffer_ # cont.buffer_

C35_GrowthReadsOldElements ==
    [][Regrown =>
          \A i \in resize(VecStarted(cont), cont'.size_).read :
              /\ i < cont.size_
              /\ i < cont.buffer_size_]_vars

\* C36 (counterexample): copy-assigning a set/map to itself leaves its
\* elements, their traversal order and size() unchanged.  (SpecCopy)
C36_SelfAssignKeeps ==
    [][(/\ op' = "self_assign"
        /\ err' = "none"
        /\ Intact(objs, arg')) =>
         /\ Intact(objs', arg')
         /\ TraverseOf(objs', heaps', arg') = TraverseOf(objs, heaps, arg')
         /\ objs'[arg'].size_ = objs[arg'].size_]_vars

\* the fields of the two sentinels that node_t(nil_) sets and no member
\* function of the tree assigns a different value to
SentinelsFixed(m) ==
    /\ ~m[nil_].red
    /\ m[nil_].left = nil_
    /\ m[nil_].right = nil_
    /\ ~m[root_].red
    /\ m[root_].right = nil_
    /\ m[root_].parent = nil_

\* C37: in every state reachable by insert, erase and clear the nil sentinel
\* is black with left and right links to itself, and the root sentinel is
\* black with right child nil and parent nil; apart from the root sentinel's
\* left child, the only sentinel field a step alters is the nil sentinel's
\* parent link.  (Spec)
C37_SentinelsFixed ==
    /\ [](({nil_, root_} \subseteq blocks) /\ SentinelsFixed(mem))
    /\ [][/\ mem'[nil_] = [mem[nil_] EXCEPT !.parent = mem'[nil_].parent]
          /\ mem'[root_] = [mem[root_] EXCEPT !.left = mem'[root_].left]]_vars

\* an erase has left the nil sentinel's parent link on a node of the tree
\* and the root sentinel's left child on another
C37_Witness ==
    /\ op = "erase"
    /\ err = "none"
    /\ size_ >= 2
    /\ mem[nil_].parent \in blocks \ {nil_, root_}
    /\ mem[root_].left \in blocks \ {nil_, root_}
    /\ mem[nil_].parent # mem[root_].left
    /\ SentinelsFixed(mem)

====
